---- MODULE Spec2Model ----
(***************************************************************************)
(* External sort-merge engine of the merger repository: the line framer    *)
(* (lines.rs), the chunk builder (chunker.rs), the bounded fan-in merge    *)
(* (merger.rs) and the pipeline that sequences them (lib.rs).              *)
(*                                                                         *)
(* Files are byte sequences.  A Line is a byte sequence without LF.        *)
(* A scratch file is a record [data, written]: data is the bytes on disk,  *)
(* written is the history of the Lines that were written into it.          *)
(***************************************************************************)
EXTENDS Naturals, Sequences, FiniteSets

\* ------------------------------------------------------------------ bounds

\* total number of bytes over the two input files
MaxBytes == 5

\* largest chunk size bound (max_lines) tried
MaxChunkLines == 2

\* the fan-in bound; 64 in merger.rs, scaled down so that rounds happen
MAX_OPEN_MERGE_FILES == 2

\* ------------------------------------------------------------------- bytes

LF == 10

CR == 13

\* a byte below CR (TAB), the two terminator bytes
Byte == {9, LF, CR}

\* ------------------------------------------------------- Vec<u8> ordering

\* Ord for Vec<u8>: lexicographic, unsigned bytes, a proper prefix is smaller
RECURSIVE LexLess(_, _)
LexLess(a, b) ==
    IF a = <<>> THEN b # <<>>
    ELSE IF b = <<>> THEN FALSE
    ELSE IF Head(a) = Head(b) THEN LexLess(Tail(a), Tail(b))
    ELSE Head(a) < Head(b)

LexLeq(a, b) == a = b \/ LexLess(a, b)

\* ------------------------------------------------------------ line framer

\* BufRead::read_until(b'\n'): index of the last byte taken when reading
\* starts at index i (the first LF at or after i, or the end of the stream)
RECURSIVE ScanLF(_, _)
ScanLF(stream, i) ==
    IF i > Len(stream) THEN Len(stream)
    ELSE IF stream[i] = LF THEN i
    ELSE ScanLF(stream, i + 1)

Last(s) == s[Len(s)]

Pop(s) == SubSeq(s, 1, Len(s) - 1)

\* variant of trim_line_break that leaves a lone trailing CR in place
TrimLineBreakLFOnly(line) ==
    IF line # <<>> /\ Last(line) = LF
    THEN LET l1 == Pop(line)
         IN  IF l1 # <<>> /\ Last(l1) = CR THEN Pop(l1) ELSE l1
    ELSE line

\* trim_line_break
TrimLineBreak(line) ==
    IF line # <<>> /\ Last(line) = LF
    THEN LET l1 == Pop(line)
         IN  IF l1 # <<>> /\ Last(l1) = CR THEN Pop(l1) ELSE l1
    ELSE IF line # <<>> /\ Last(line) = CR THEN Pop(line)
    ELSE line

\* read_next_line on a reader that has consumed pos bytes of stream:
\* some = FALSE is Ok(None); otherwise line is the Line and pos the new offset
ReadNextLine(stream, pos) ==
    LET buf        == SubSeq(stream, pos + 1, ScanLF(stream, pos + 1))
        bytes_read == Len(buf)
    IN  IF bytes_read = 0
        THEN [some |-> FALSE, line |-> <<>>, pos |-> pos]
        ELSE [some |-> TRUE, line |-> TrimLineBreak(buf), pos |-> pos + bytes_read]

\* the Lines a fresh reader over stream yields until Ok(None), from offset pos
RECURSIVE ReadLinesFrom(_, _)
ReadLinesFrom(stream, pos) ==
    LET r == ReadNextLine(stream, pos)
    IN  IF r.some THEN <<r.line>> \o ReadLinesFrom(stream, r.pos) ELSE <<>>

ReadAllLines(stream) == ReadLinesFrom(stream, 0)

\* ---------------------------------------------------------- chunk builder

\* insertion of one Line into an ascending sequence
RECURSIVE InsertSorted(_, _)
InsertSorted(x, s) ==
    IF s = <<>> THEN <<x>>
    ELSE IF LexLeq(x, Head(s)) THEN <<x>> \o s
    ELSE <<Head(s)>> \o InsertSorted(x, Tail(s))

\* chunk.sort_unstable(): equal Lines are indistinguishable, the result is unique
RECURSIVE SortUnstable(_)
SortUnstable(s) ==
    IF s = <<>> THEN <<>> ELSE InsertSorted(Head(s), SortUnstable(Tail(s)))

\* chunk.dedup(): removes consecutive repeated Lines
RECURSIVE Dedup(_)
Dedup(s) ==
    IF Len(s) <= 1 THEN s
    ELSE IF s[1] = s[2] THEN Dedup(Tail(s))
    ELSE <<s[1]>> \o Dedup(Tail(s))

\* the bytes of write_all(line); write_all(b"\n") for each Line in turn
RECURSIVE WriteLines(_)
WriteLines(ls) ==
    IF ls = <<>> THEN <<>> ELSE Head(ls) \o <<LF>> \o WriteLines(Tail(ls))

\* variant of flush_chunk that writes the chunk without sorting it
FlushedFileNoSort(chunk) ==
    LET kept == Dedup(chunk)
    IN  [data |-> WriteLines(kept), written |-> kept]

\* the scratch file flush_chunk creates from a non-empty chunk
FlushedFile(chunk) ==
    LET sorted == Dedup(SortUnstable(chunk))
    IN  [data |-> WriteLines(sorted), written |-> sorted]

\* flush_chunk: an empty chunk returns at once, otherwise one more temp file
FlushChunk(chunk, temp_files) ==
    IF chunk = <<>> THEN temp_files ELSE Append(temp_files, FlushedFile(chunk))

\* ------------------------------------------------------------ merge engine

\* BinaryHeap<Reverse<(Vec<u8>, usize)>>::pop: the entry smallest by (Line, index)
HeapMin(heap) ==
    CHOOSE e \in heap :
        \A f \in heap :
            \/ e = f
            \/ LexLess(e[1], f[1])
            \/ (e[1] = f[1] /\ e[2] < f[2])

\* merge_into_writer up to its loop: every source reopened and read once;
\* pos is the offset of each reader, heap the set of (Line, index) entries,
\* last_written is <<>> for None and <<l>> for Some(l)
RECURSIVE PrimeHeap(_, _, _)
PrimeHeap(sources, idx, st) ==
    IF idx > Len(sources) THEN st
    ELSE LET r == ReadNextLine(sources[idx].data, 0)
         IN  PrimeHeap(sources, idx + 1,
                 [st EXCEPT !.pos = Append(@, r.pos),
                            !.heap = IF r.some THEN @ \cup {<<r.line, idx>>} ELSE @])

MergeStart(sources) ==
    PrimeHeap(sources, 1,
        [pos |-> <<>>, heap |-> {}, last_written |-> <<>>, data |-> <<>>, written |-> <<>>])

\* variant of the merge loop body that writes every popped Line
MergePopNoDedup(sources, st) ==
    LET e      == HeapMin(st.heap)
        r      == ReadNextLine(sources[e[2]].data, st.pos[e[2]])
        popped == st.heap \ {e}
    IN  [pos          |-> [st.pos EXCEPT ![e[2]] = r.pos],
         heap         |-> IF r.some THEN popped \cup {<<r.line, e[2]>>} ELSE popped,
         last_written |-> <<e[1]>>,
         data         |-> st.data \o e[1] \o <<LF>>,
         written      |-> Append(st.written, e[1])]

\* variant of the merge loop body that does not read the next Line of the
\* source it popped from
MergePopNoRefill(sources, st) ==
    LET e            == HeapMin(st.heap)
        should_write == IF st.last_written # <<>> THEN st.last_written[1] # e[1] ELSE TRUE
    IN  [pos          |-> st.pos,
         heap         |-> st.heap \ {e},
         last_written |-> IF should_write THEN <<e[1]>> ELSE st.last_written,
         data         |-> IF should_write THEN st.data \o e[1] \o <<LF>> ELSE st.data,
         written      |-> IF should_write THEN Append(st.written, e[1]) ELSE st.written]

\* one iteration of `while let Some(Reverse((line, idx))) = heap.pop()`
MergePop(sources, st) ==
    LET e            == HeapMin(st.heap)
        line         == e[1]
        idx          == e[2]
        should_write == IF st.last_written # <<>> THEN st.last_written[1] # line ELSE TRUE
        r            == ReadNextLine(sources[idx].data, st.pos[idx])
        popped       == st.heap \ {e}
    IN  [pos          |-> [st.pos EXCEPT ![idx] = r.pos],
         heap         |-> IF r.some THEN popped \cup {<<r.line, idx>>} ELSE popped,
         last_written |-> IF should_write THEN <<line>> ELSE st.last_written,
         data         |-> IF should_write THEN st.data \o line \o <<LF>> ELSE st.data,
         written      |-> IF should_write THEN Append(st.written, line) ELSE st.written]

RECURSIVE MergeDrain(_, _)
MergeDrain(sources, st) ==
    IF st.heap = {} THEN st ELSE MergeDrain(sources, MergePop(sources, st))

\* merge_into_writer: what the writer received, as a file [data, written]
MergeIntoWriter(sources) ==
    IF sources = <<>> THEN [data |-> <<>>, written |-> <<>>]
    ELSE LET st == MergeDrain(sources, MergeStart(sources))
         IN  [data |-> st.data, written |-> st.written]

\* merge_group_into_temp: a fresh scratch file holding the merge of the group
MergeGroupIntoTemp(group) == MergeIntoWriter(group)

\* ------------------------------------------------------- scratch allocator

\* the directories the allocator can meet: the parent of the output path, the
\* system temporary directory (std::env::temp_dir()), an explicit --temp-dir
Dirs == {"out", "tmp", "custom"}

SystemTemp == "tmp"

\* Builder::tempfile_in(dir): succeeds when dir exists and can be written
CreateIn(fs, dir) == dir \in fs.exists /\ dir \in fs.writable

\* fs::create_dir_all(dir): the directories that exist afterwards
CreateDirAll(fs, dir) ==
    IF dir \in fs.creatable THEN [fs EXCEPT !.exists = @ \cup {dir}] ELSE fs

\* variant of TempFileFactory::new that keeps the system directory as fallback
\* whatever the caller asked for
NewFactoryFallbackAlways(preferred, out_parent, fs) ==
    LET primary == IF preferred # <<>> THEN preferred[1] ELSE out_parent
        fs1     == IF primary \in fs.exists THEN fs ELSE CreateDirAll(fs, primary)
    IN  [ok       |-> primary \in fs1.exists,
         primary  |-> primary,
         fallback |-> <<SystemTemp>>,
         fs       |-> IF primary \in fs1.exists THEN CreateDirAll(fs1, SystemTemp) ELSE fs1]

\* TempFileFactory::new(preferred, output): preferred is <<>> for None and
\* <<d>> for Some(d); out_parent is output.parent() (or "."); ok = FALSE is
\* the Err of create_dir_all(primary); fs is the file system afterwards
NewFactory(preferred, out_parent, fs) ==
    LET primary  == IF preferred # <<>> THEN preferred[1] ELSE out_parent
        fs1      == IF primary \in fs.exists THEN fs ELSE CreateDirAll(fs, primary)
        fallback == IF preferred = <<>> /\ SystemTemp # primary
                    THEN <<SystemTemp>> ELSE <<>>
        fs2      == IF fallback # <<>> /\ fallback[1] \notin fs1.exists
                    THEN CreateDirAll(fs1, fallback[1]) ELSE fs1
    IN  [ok       |-> primary \in fs1.exists,
         primary  |-> primary,
         fallback |-> fallback,
         fs       |-> IF primary \in fs1.exists THEN fs2 ELSE fs1]

\* variant of TempFileFactory::create that never tries the fallback
CreateScratchPrimaryOnly(primary, fallback, fs) ==
    IF CreateIn(fs, primary)
    THEN [ok |-> TRUE, dir |-> <<primary>>, tried |-> <<primary>>,
          named |-> {}, hint |-> FALSE]
    ELSE [ok |-> FALSE, dir |-> <<>>, tried |-> <<primary>>,
          named |-> {primary}, hint |-> TRUE]

\* TempFileFactory::create: dir is where the file was created, tried the
\* directories create_in was called on, named the directories the error
\* message names, hint whether it says to use --temp-dir
CreateScratch(primary, fallback, fs) ==
    IF CreateIn(fs, primary)
    THEN [ok |-> TRUE, dir |-> <<primary>>, tried |-> <<primary>>,
          named |-> {}, hint |-> FALSE]
    ELSE IF fallback # <<>>
    THEN IF CreateIn(fs, fallback[1])
         THEN [ok |-> TRUE, dir |-> fallback, tried |-> <<primary, fallback[1]>>,
               named |-> {}, hint |-> FALSE]
         ELSE [ok |-> FALSE, dir |-> <<>>, tried |-> <<primary, fallback[1]>>,
               named |-> {primary, fallback[1]}, hint |-> TRUE]
    ELSE [ok |-> FALSE, dir |-> <<>>, tried |-> <<primary>>,
          named |-> {primary}, hint |-> TRUE]

\* ------------------------------------------------------------------ state

VARIABLES
    files,         \* the file list handed to ChunkBuilder::build (byte sequences)
    max_lines,     \* ChunkBuilder.max_lines
    pc,            \* position in execute_pipeline / build / merge_chunks
    file_idx,      \* index of the file the `for path in files` loop is at
    reader,        \* bytes consumed by the BufReader of the open input file
    lines_read,    \* history: the Lines read_next_line yielded from the open file
    chunk,         \* build's chunk
    count,         \* build's count
    temp_files,    \* build's temp_files, then merge_chunks' temp_files
    built,         \* history: the Runs build returned
    next_round,    \* merge_chunks' next_round
    group,         \* merge_chunks' group
    rounds,        \* history: number of completed reduction rounds
    output,        \* the output file: <<>> when absent, <<bytes>> when present
    pass,          \* which run this is: "first", "again", "permuted", "restyled"
    first_files,   \* history: the file list of the first run
    first_output,  \* history: the output bytes of the first run
    events,        \* history: the calls received by the ProgressSink, in order
    created,       \* history: number of scratch files temp_factory.create() returned
    on_disk,       \* number of scratch files that exist on disk
    open_peak,     \* history: most file handles open at once in merge_chunks
    sources_peak,  \* history: most sources merge_into_writer was called with
    output_creates,\* history: number of successful File::create(output) calls
    error,         \* the Err execute_pipeline returned, NoError while there is none
    chunk_lines,   \* Config.chunk_lines / Cli.chunk_lines / the GUI field
    entry,         \* which front end runs the builder: "lib", "main" or "gui"
    temp_factory,  \* the TempFileFactory and the outcome of its last create()
    fsys,          \* the directories: which exist, can be created, can be written
    merge_st,      \* merge_into_writer's locals at its loop head, NoMerge outside
    popped,        \* history: the (Line, index) entries heap.pop() returned, in order
    gui,           \* MergeGui: processing, receiver, logs, status
    channel,       \* the mpsc channel of the job: WorkerMessages sent and not yet received
    worker,        \* the worker thread of the job: "none", "running", "returned", "panicked"
    sent,          \* history: the WorkerMessages the worker of the job sent, in order
    received,      \* history: the WorkerMessages poll_worker received from the job, in order
    jobs,          \* history: number of worker threads spawned
    scan           \* collect_input_files: the directory tree, the Config, its locals

vars == <<files, max_lines, pc, file_idx, reader, lines_read, chunk, count,
          temp_files, built, next_round, group, rounds, output, pass,
          first_files, first_output, events, created, on_disk, open_peak,
          sources_peak, output_creates, error, chunk_lines, entry,
          temp_factory, fsys, merge_st, popped, gui, channel, worker, sent,
          received, jobs, scan>>

\* what no step of build or merge_chunks changes: the configuration, the
\* allocator, the front end and the input discovery that ran before
envVars == <<chunk_lines, entry, temp_factory, fsys, merge_st, popped, gui,
             channel, worker, sent, received, jobs, scan>>

\* merge_into_writer is not running
NoMerge == [pos |-> <<>>, heap |-> {}, last_written |-> <<>>, data |-> <<>>, written |-> <<>>]

\* MergeGui::default(): not processing, no receiver, no logs; cleared is
\* history: how many Log messages of the job had been received at the last
\* logs.clear()
DefaultGui ==
    [processing |-> FALSE, receiver |-> FALSE, logs |-> <<>>, status |-> "ready",
     cleared |-> 0]

\* collect_input_files is not running
NoScan == [kind |-> <<>>, inputs |-> <<>>, recursive |-> FALSE, ext |-> "txt",
           output |-> <<>>, at |-> 1, files |-> <<>>, result |-> "none"]

\* neither the stepwise merge, nor the GUI, nor the input discovery is in use
SideIdle ==
    /\ merge_st = NoMerge
    /\ popped = <<>>
    /\ gui = DefaultGui
    /\ channel = <<>>
    /\ worker = "none"
    /\ sent = <<>>
    /\ received = <<>>
    /\ jobs = 0
    /\ scan = NoScan

NoError == [stage |-> "none", kind |-> "none", file |-> 0]

Event(name, arg) == [ev |-> name, arg |-> arg]

Max(a, b) == IF a >= b THEN a ELSE b

\* the NamedTempFile values the locals of build and merge_chunks own
Held == Len(temp_files) + Len(group) + Len(next_round)

NoResult == [ok |-> TRUE, dir |-> <<>>, tried |-> <<>>, named |-> {}, hint |-> FALSE]

\* a file system in which every directory exists and can be written
AllWritable == [exists |-> Dirs, creatable |-> Dirs, writable |-> Dirs]

\* the factory new(None, output) returns when every directory exists and
\* can be written; create() has not been called
ReadyFactory ==
    [state |-> "ready", preferred |-> <<>>, out_parent |-> "out",
     primary |-> "out", fallback |-> <<SystemTemp>>,
     called |-> FALSE, result |-> NoResult, env |-> AllWritable, placed |-> {}]

\* the state at the entry of execute_pipeline with the given file list
PipelineEntry(fs, B) ==
    /\ files = fs
    /\ max_lines = B
    /\ pc = "for_files"
    /\ file_idx = 1
    /\ reader = 0
    /\ lines_read = <<>>
    /\ chunk = <<>>
    /\ count = 0
    /\ temp_files = <<>>
    /\ built = <<>>
    /\ next_round = <<>>
    /\ group = <<>>
    /\ rounds = 0
    /\ output = <<>>
    /\ events = <<>>
    /\ created = 0
    /\ on_disk = 0
    /\ open_peak = 0
    /\ sources_peak = 0
    /\ output_creates = 0
    /\ error = NoError

\* two input files of at most MaxBytes bytes together, any chunk bound >= 1
Init ==
    \E n \in 0..MaxBytes :
        \E s \in [1..n -> Byte], k \in 0..n, B \in 1..MaxChunkLines :
            /\ PipelineEntry(<<SubSeq(s, 1, k), SubSeq(s, k + 1, n)>>, B)
            /\ pass = "first"
            /\ first_files = files
            /\ first_output = <<>>
            /\ chunk_lines = B
            /\ entry = "lib"
            /\ temp_factory = ReadyFactory
            /\ fsys = AllWritable
            /\ SideIdle

\* ------------------------------------------------------------------ build

\* progress.start_file(path); File::open(path); BufReader::new(file)
StartFile ==
    /\ pc = "for_files"
    /\ file_idx <= Len(files)
    /\ events' = Append(events, Event("start_file", file_idx))
    /\ reader' = 0
    /\ lines_read' = <<>>
    /\ pc' = "read"
    /\ UNCHANGED <<files, max_lines, file_idx, chunk, count, temp_files, built,
                   next_round, group, rounds, output, pass, first_files, first_output,
                   created, on_disk, open_peak, sources_peak, output_creates, error>>
    /\ UNCHANGED envVars

\* variant of the loop body that flushes only when count exceeds max_lines
ReadLineFlushesLate ==
    /\ pc = "read"
    /\ LET r == ReadNextLine(files[file_idx], reader)
           pushed == Append(chunk, r.line)
       IN  /\ r.some
           /\ reader' = r.pos
           /\ lines_read' = Append(lines_read, r.line)
           /\ events' = Append(events, Event("on_line", 0))
           /\ IF count + 1 > max_lines
              THEN /\ temp_files' = FlushChunk(pushed, temp_files)
                   /\ chunk' = <<>>
                   /\ count' = 0
                   /\ created' = created + 1
                   /\ on_disk' = on_disk + 1
              ELSE /\ temp_files' = temp_files
                   /\ chunk' = pushed
                   /\ count' = count + 1
                   /\ UNCHANGED <<created, on_disk>>
    /\ UNCHANGED <<files, max_lines, pc, file_idx, built, next_round, group,
                   rounds, output, pass, first_files, first_output,
                   open_peak, sources_peak, output_creates, error>>
    /\ UNCHANGED envVars

\* one iteration of `while let Some(line) = read_next_line(&mut reader)`
ReadLine ==
    /\ pc = "read"
    /\ LET r == ReadNextLine(files[file_idx], reader)
           pushed == Append(chunk, r.line)
       IN  /\ r.some
           /\ reader' = r.pos
           /\ lines_read' = Append(lines_read, r.line)
           /\ events' = Append(events, Event("on_line", 0))
           /\ IF count + 1 >= max_lines
              THEN /\ temp_files' = FlushChunk(pushed, temp_files)
                   /\ chunk' = <<>>
                   /\ count' = 0
                   /\ created' = created + 1
                   /\ on_disk' = on_disk + 1
              ELSE /\ temp_files' = temp_files
                   /\ chunk' = pushed
                   /\ count' = count + 1
                   /\ UNCHANGED <<created, on_disk>>
    /\ UNCHANGED <<files, max_lines, pc, file_idx, built, next_round, group,
                   rounds, output, pass, first_files, first_output,
                   open_peak, sources_peak, output_creates, error>>
    /\ UNCHANGED envVars

\* variant of the end of a file that flushes the chunk at the file boundary
FinishFileFlushing ==
    /\ pc = "read"
    /\ ~ReadNextLine(files[file_idx], reader).some
    /\ events' = Append(events, Event("finish_file", file_idx))
    /\ file_idx' = file_idx + 1
    /\ pc' = "for_files"
    /\ temp_files' = FlushChunk(chunk, temp_files)
    /\ chunk' = <<>>
    /\ count' = 0
    /\ created' = created + (Len(temp_files') - Len(temp_files))
    /\ on_disk' = on_disk + (Len(temp_files') - Len(temp_files))
    /\ UNCHANGED <<files, max_lines, reader, lines_read, built, next_round, group,
                   rounds, output, pass, first_files, first_output,
                   open_peak, sources_peak, output_creates, error>>
    /\ UNCHANGED envVars

\* read_next_line returned Ok(None): progress.finish_file(path), next file
FinishFile ==
    /\ pc = "read"
    /\ ~ReadNextLine(files[file_idx], reader).some
    /\ events' = Append(events, Event("finish_file", file_idx))
    /\ file_idx' = file_idx + 1
    /\ pc' = "for_files"
    /\ UNCHANGED <<files, max_lines, reader, lines_read, chunk, count, temp_files,
                   built, next_round, group, rounds, output, pass, first_files,
                   first_output, created, on_disk, open_peak, sources_peak,
                   output_creates, error>>
    /\ UNCHANGED envVars

\* variant of the hand-over to the merge that signals start_merge even for
\* an empty Run list
BuildReturnAlwaysSignals ==
    /\ pc = "for_files"
    /\ file_idx > Len(files)
    /\ temp_files' = FlushChunk(chunk, temp_files)
    /\ chunk' = <<>>
    /\ built' = temp_files'
    /\ created' = created + (Len(temp_files') - Len(temp_files))
    /\ on_disk' = on_disk + (Len(temp_files') - Len(temp_files))
    /\ events' = Append(events, Event("start_merge", Len(temp_files')))
    /\ open_peak' = Len(temp_files')
    /\ pc' = "merge_chunks"
    /\ UNCHANGED <<files, max_lines, file_idx, reader, lines_read, count,
                   next_round, group, rounds, output, pass, first_files, first_output,
                   sources_peak, output_creates, error>>
    /\ UNCHANGED envVars

\* after the loop: flush a non-empty chunk, return Ok(temp_files);
\* execute_pipeline signals start_merge for a non-empty Run list and calls
\* merge_chunks, which now holds one open NamedTempFile per Run
BuildReturn ==
    /\ pc = "for_files"
    /\ file_idx > Len(files)
    /\ temp_files' = FlushChunk(chunk, temp_files)
    /\ chunk' = <<>>
    /\ built' = temp_files'
    /\ created' = created + (Len(temp_files') - Len(temp_files))
    /\ on_disk' = on_disk + (Len(temp_files') - Len(temp_files))
    /\ events' = IF temp_files' # <<>>
                 THEN Append(events, Event("start_merge", Len(temp_files')))
                 ELSE events
    /\ open_peak' = Len(temp_files')
    /\ pc' = "merge_chunks"
    /\ UNCHANGED <<files, max_lines, file_idx, reader, lines_read, count,
                   next_round, group, rounds, output, pass, first_files, first_output,
                   sources_peak, output_creates, error>>
    /\ UNCHANGED envVars

\* ----------------------------------------------------------- merge_chunks

\* variant of the empty case that returns without creating the output file
MergeChunksEmptyNoCreate ==
    /\ pc = "merge_chunks"
    /\ temp_files = <<>>
    /\ pc' = "merged"
    /\ UNCHANGED <<files, max_lines, file_idx, reader, lines_read, chunk, count,
                   temp_files, built, next_round, group, rounds, pass, first_files,
                   first_output, events, created, on_disk, open_peak, sources_peak,
                   error, output, output_creates>>
    /\ UNCHANGED envVars

\* temp_files.is_empty(): File::create(output) and return
MergeChunksEmpty ==
    /\ pc = "merge_chunks"
    /\ temp_files = <<>>
    /\ output' = << <<>> >>
    /\ output_creates' = output_creates + 1
    /\ pc' = "merged"
    /\ UNCHANGED <<files, max_lines, file_idx, reader, lines_read, chunk, count,
                   temp_files, built, next_round, group, rounds, pass, first_files,
                   first_output, events, created, on_disk, open_peak, sources_peak,
                   error>>
    /\ UNCHANGED envVars

\* `while temp_files.len() > MAX_OPEN_MERGE_FILES`: a round begins
RoundStart ==
    /\ pc = "merge_chunks"
    /\ Len(temp_files) > MAX_OPEN_MERGE_FILES
    /\ next_round' = <<>>
    /\ group' = <<>>
    /\ pc' = "round"
    /\ UNCHANGED <<files, max_lines, file_idx, reader, lines_read, chunk, count,
                   temp_files, built, rounds, output, pass, first_files, first_output,
                   events, created, on_disk, open_peak, sources_peak, output_creates,
                   error>>
    /\ UNCHANGED envVars

\* one iteration of `for temp_file in temp_files.into_iter()`: the file moves
\* into the group; a full group is merged into a fresh temp file and dropped.
\* During the merge the rest of the iterator, the group, next_round and the
\* new file are held open, and one more handle per source is reopened.
GroupPush ==
    /\ pc = "round"
    /\ temp_files # <<>>
    /\ LET pushed == Append(group, Head(temp_files))
       IN  IF Len(pushed) = MAX_OPEN_MERGE_FILES
           THEN /\ next_round' = Append(next_round, MergeGroupIntoTemp(pushed))
                /\ group' = <<>>
                /\ created' = created + 1
                /\ on_disk' = (on_disk + 1) - Len(pushed)
                /\ open_peak' = Max(open_peak, (Held + 1) + Len(pushed))
                /\ sources_peak' = Max(sources_peak, Len(pushed))
           ELSE /\ next_round' = next_round
                /\ group' = pushed
                /\ UNCHANGED <<created, on_disk, open_peak, sources_peak>>
    /\ temp_files' = Tail(temp_files)
    /\ UNCHANGED <<files, max_lines, pc, file_idx, reader, lines_read, chunk, count,
                   built, rounds, output, pass, first_files, first_output, events,
                   output_creates, error>>
    /\ UNCHANGED envVars

\* variant of the end of a round that reports the count before the last
\* group has been added
RoundEndReportsEarly ==
    /\ pc = "round"
    /\ temp_files = <<>>
    /\ temp_files' =
           IF group = <<>> THEN next_round
           ELSE IF Len(group) = 1 THEN Append(next_round, group[1])
           ELSE Append(next_round, MergeGroupIntoTemp(group))
    /\ IF Len(group) >= 2
       THEN /\ created' = created + 1
            /\ on_disk' = (on_disk + 1) - Len(group)
            /\ open_peak' = Max(open_peak, (Held + 1) + Len(group))
            /\ sources_peak' = Max(sources_peak, Len(group))
       ELSE UNCHANGED <<created, on_disk, open_peak, sources_peak>>
    /\ events' = Append(events, Event("merge_round", Len(next_round)))
    /\ group' = <<>>
    /\ next_round' = <<>>
    /\ rounds' = rounds + 1
    /\ pc' = "merge_chunks"
    /\ UNCHANGED <<files, max_lines, file_idx, reader, lines_read, chunk, count,
                   built, output, pass, first_files, first_output, output_creates,
                   error>>
    /\ UNCHANGED envVars

\* variant of the end of a round that merges a last group of one Run into a
\* fresh scratch file like any other group
RoundEndMergesSingle ==
    /\ pc = "round"
    /\ temp_files = <<>>
    /\ temp_files' =
           IF group = <<>> THEN next_round
           ELSE Append(next_round, MergeGroupIntoTemp(group))
    /\ IF Len(group) >= 1
       THEN /\ created' = created + 1
            /\ on_disk' = (on_disk + 1) - Len(group)
            /\ open_peak' = Max(open_peak, (Held + 1) + Len(group))
            /\ sources_peak' = Max(sources_peak, Len(group))
       ELSE UNCHANGED <<created, on_disk, open_peak, sources_peak>>
    /\ events' = Append(events, Event("merge_round", Len(temp_files')))
    /\ group' = <<>>
    /\ next_round' = <<>>
    /\ rounds' = rounds + 1
    /\ pc' = "merge_chunks"
    /\ UNCHANGED <<files, max_lines, file_idx, reader, lines_read, chunk, count,
                   built, output, pass, first_files, first_output, output_creates,
                   error>>
    /\ UNCHANGED envVars

\* after the for loop: the last group (one Run passes through, more are merged),
\* progress.merge_round(next_round.len()), temp_files = next_round
RoundEnd ==
    /\ pc = "round"
    /\ temp_files = <<>>
    /\ temp_files' =
           IF group = <<>> THEN next_round
           ELSE IF Len(group) = 1 THEN Append(next_round, group[1])
           ELSE Append(next_round, MergeGroupIntoTemp(group))
    /\ IF Len(group) >= 2
       THEN /\ created' = created + 1
            /\ on_disk' = (on_disk + 1) - Len(group)
            /\ open_peak' = Max(open_peak, (Held + 1) + Len(group))
            /\ sources_peak' = Max(sources_peak, Len(group))
       ELSE UNCHANGED <<created, on_disk, open_peak, sources_peak>>
    /\ events' = Append(events, Event("merge_round", Len(temp_files')))
    /\ group' = <<>>
    /\ next_round' = <<>>
    /\ rounds' = rounds + 1
    /\ pc' = "merge_chunks"
    /\ UNCHANGED <<files, max_lines, file_idx, reader, lines_read, chunk, count,
                   built, output, pass, first_files, first_output, output_creates,
                   error>>
    /\ UNCHANGED envVars

\* File::create(output); merge_into_writer(&temp_files, &mut writer); flush
FinalMerge ==
    /\ pc = "merge_chunks"
    /\ temp_files # <<>>
    /\ Len(temp_files) <= MAX_OPEN_MERGE_FILES
    /\ output' = <<MergeIntoWriter(temp_files).data>>
    /\ output_creates' = output_creates + 1
    /\ open_peak' = Max(open_peak, Held + Len(temp_files))
    /\ sources_peak' = Max(sources_peak, Len(temp_files))
    /\ pc' = "merged"
    /\ UNCHANGED <<files, max_lines, file_idx, reader, lines_read, chunk, count,
                   temp_files, built, next_round, group, rounds, pass, first_files,
                   first_output, events, created, on_disk, error>>
    /\ UNCHANGED envVars

\* merge_chunks returns Ok(()) (its temp files are dropped); progress.finish(output)
Finish ==
    /\ pc = "merged"
    /\ temp_files' = <<>>
    /\ on_disk' = on_disk - Len(temp_files)
    /\ events' = Append(events, Event("finish", 0))
    /\ pc' = "done"
    /\ UNCHANGED <<files, max_lines, file_idx, reader, lines_read, chunk, count,
                   built, next_round, group, rounds, output, pass, first_files,
                   first_output, created, open_peak, sources_peak, output_creates,
                   error>>
    /\ UNCHANGED envVars

\* -------------------------------------------------------- further runs

\* execute_pipeline is entered once more, with the file list fs
EnterPipeline(fs) ==
    /\ files' = fs
    /\ pc' = "for_files"
    /\ file_idx' = 1
    /\ reader' = 0
    /\ lines_read' = <<>>
    /\ chunk' = <<>>
    /\ count' = 0
    /\ temp_files' = <<>>
    /\ built' = <<>>
    /\ next_round' = <<>>
    /\ group' = <<>>
    /\ rounds' = 0
    /\ output' = <<>>
    /\ events' = <<>>
    /\ created' = 0
    /\ open_peak' = 0
    /\ sources_peak' = 0
    /\ output_creates' = 0
    /\ UNCHANGED <<max_lines, on_disk, error>>
    /\ UNCHANGED envVars

\* run again with the output file of the first run as the sole input file
RunAgainOnOutput ==
    /\ pc = "done"
    /\ pass = "first"
    /\ EnterPipeline(<<output[1]>>)
    /\ pass' = "again"
    /\ first_output' = output[1]
    /\ UNCHANGED first_files

\* run again on the same files, listed in another order
RunPermuted ==
    /\ pc = "done"
    /\ pass = "first"
    /\ EnterPipeline(<<files[2], files[1]>>)
    /\ pass' = "permuted"
    /\ first_output' = output[1]
    /\ UNCHANGED first_files

\* the bytes of the given Lines, each ended by CR LF when crlf, by LF otherwise
RECURSIVE Terminate(_, _)
Terminate(ls, crlf) ==
    IF ls = <<>> THEN <<>>
    ELSE Head(ls) \o (IF crlf THEN <<CR, LF>> ELSE <<LF>>) \o Terminate(Tail(ls), crlf)

\* run again on files that hold the same Lines in another terminator style
RunRestyled ==
    /\ pc = "done"
    /\ pass = "first"
    /\ \E crlf \in BOOLEAN :
           EnterPipeline([i \in 1..Len(files) |-> Terminate(ReadAllLines(files[i]), crlf)])
    /\ pass' = "restyled"
    /\ first_output' = output[1]
    /\ UNCHANGED first_files

\* the steps of one successful run of execute_pipeline
RunStep ==
    \/ StartFile
    \/ ReadLine
    \/ FinishFile
    \/ BuildReturn
    \/ MergeChunksEmpty
    \/ RoundStart
    \/ GroupPush
    \/ RoundEnd
    \/ FinalMerge
    \/ Finish

Next ==
    \/ RunStep
    \/ RunAgainOnOutput
    \/ RunPermuted
    \/ RunRestyled

Spec == Init /\ [][Next]_vars

\* ------------------------------------------------------------ error paths

\* variant of an error return that leaves a scratch file made by the failing
\* step on disk
FailLeaking(stage, kind, file, made) ==
    /\ pc' = "failed"
    /\ error' = [stage |-> stage, kind |-> kind, file |-> file]
    /\ temp_files' = <<>>
    /\ group' = <<>>
    /\ next_round' = <<>>
    /\ chunk' = <<>>
    /\ created' = created + made
    /\ on_disk' = (on_disk - Held) + made
    /\ UNCHANGED <<files, max_lines, file_idx, count, built, rounds, pass,
                   first_files, first_output, open_peak, sources_peak>>
    /\ UNCHANGED envVars

\* an error leaves build or merge_chunks through `?` and execute_pipeline
\* returns it: every NamedTempFile in scope is dropped, which removes its
\* file; `made` counts the scratch file the failing step had created
Fail(stage, kind, file, made) ==
    /\ pc' = "failed"
    /\ error' = [stage |-> stage, kind |-> kind, file |-> file]
    /\ temp_files' = <<>>
    /\ group' = <<>>
    /\ next_round' = <<>>
    /\ chunk' = <<>>
    /\ created' = created + made
    /\ on_disk' = on_disk - Held
    /\ UNCHANGED <<files, max_lines, file_idx, count, built, rounds, pass,
                   first_files, first_output, open_peak, sources_peak>>
    /\ UNCHANGED envVars

\* progress.start_file(path), then File::open(path) fails
OpenFails ==
    /\ pc = "for_files"
    /\ file_idx <= Len(files)
    /\ events' = Append(events, Event("start_file", file_idx))
    /\ Fail("build", "open", file_idx, 0)
    /\ UNCHANGED <<reader, lines_read, output, output_creates>>

\* variant of a read failure that still signals finish_file for the file
ReadFailsAfterFinishFile ==
    /\ pc = "read"
    /\ events' = Append(events, Event("finish_file", file_idx))
    /\ Fail("build", "read", file_idx, 0)
    /\ UNCHANGED <<reader, lines_read, output, output_creates>>

\* read_next_line(&mut reader) returns Err at the current position of the file
ReadFails ==
    /\ pc = "read"
    /\ Fail("build", "read", file_idx, 0)
    /\ UNCHANGED <<events, reader, lines_read, output, output_creates>>

\* the Line that fills the Chunk is read and counted, then flush_chunk fails:
\* temp_factory.create() fails, or a write to the created file fails
FlushFails ==
    /\ pc = "read"
    /\ LET r == ReadNextLine(files[file_idx], reader)
       IN  /\ r.some
           /\ count + 1 >= max_lines
           /\ reader' = r.pos
           /\ lines_read' = Append(lines_read, r.line)
           /\ events' = Append(events, Event("on_line", 0))
    /\ \E kind \in {"create", "write"} :
           Fail("build", kind, file_idx, IF kind = "write" THEN 1 ELSE 0)
    /\ UNCHANGED <<output, output_creates>>

\* after the last file, flush_chunk of the remaining Chunk fails
FinalFlushFails ==
    /\ pc = "for_files"
    /\ file_idx > Len(files)
    /\ chunk # <<>>
    /\ \E kind \in {"create", "write"} :
           Fail("build", kind, 0, IF kind = "write" THEN 1 ELSE 0)
    /\ UNCHANGED <<events, reader, lines_read, output, output_creates>>

\* temp_files.is_empty() and File::create(output) fails
MergeEmptyCreateFails ==
    /\ pc = "merge_chunks"
    /\ temp_files = <<>>
    /\ Fail("merge", "create_output", 0, 0)
    /\ UNCHANGED <<events, reader, lines_read, output, output_creates>>

\* variant of a failing group merge that had opened the output path, not a
\* scratch file, as the merge destination
GroupMergeFailsOnOutput ==
    /\ pc = "round"
    /\ IF temp_files # <<>>
       THEN Len(group) + 1 = MAX_OPEN_MERGE_FILES
       ELSE Len(group) >= 2
    /\ \E kind \in {"create", "reopen", "read", "write"} :
           Fail("merge", kind, 0, 0)
    /\ output' = << <<>> >>
    /\ output_creates' = output_creates + 1
    /\ UNCHANGED <<events, reader, lines_read>>

\* merge_group_into_temp fails, for a full group inside the for loop or for
\* the last group after it: creating the scratch file, reopening or reading
\* a source, or writing to the scratch file
GroupMergeFails ==
    /\ pc = "round"
    /\ IF temp_files # <<>>
       THEN Len(group) + 1 = MAX_OPEN_MERGE_FILES
       ELSE Len(group) >= 2
    /\ \E kind \in {"create", "reopen", "read", "write"} :
           Fail("merge", kind, 0, IF kind = "create" THEN 0 ELSE 1)
    /\ UNCHANGED <<events, reader, lines_read, output, output_creates>>

\* variant of a failing final merge after which finish is still signalled
FinalMergeFailsThenFinish ==
    /\ pc = "merge_chunks"
    /\ temp_files # <<>>
    /\ Len(temp_files) <= MAX_OPEN_MERGE_FILES
    /\ output' = << <<>> >>
    /\ output_creates' = output_creates + 1
    /\ events' = Append(events, Event("finish", 0))
    /\ Fail("merge", "write", 0, 0)
    /\ UNCHANGED <<reader, lines_read>>

\* the final merge fails: File::create(output) fails and leaves the output
\* untouched, or the output is created and a reopen, a read or a write fails
\* after some prefix of the merged bytes reached the file
FinalMergeFails ==
    /\ pc = "merge_chunks"
    /\ temp_files # <<>>
    /\ Len(temp_files) <= MAX_OPEN_MERGE_FILES
    /\ \E kind \in {"create_output", "reopen", "read", "write"} :
           /\ Fail("merge", kind, 0, 0)
           /\ IF kind = "create_output"
              THEN UNCHANGED <<output, output_creates>>
              ELSE /\ output_creates' = output_creates + 1
                   /\ \E n \in 0..Len(MergeIntoWriter(temp_files).data) :
                          /\ kind = "reopen" => n = 0
                          /\ output' = <<SubSeq(MergeIntoWriter(temp_files).data, 1, n)>>
    /\ UNCHANGED <<events, reader, lines_read>>

\* one run of execute_pipeline in which any fallible step may fail
NextFaulty ==
    \/ RunStep
    \/ OpenFails
    \/ ReadFails
    \/ FlushFails
    \/ FinalFlushFails
    \/ MergeEmptyCreateFails
    \/ GroupMergeFails
    \/ FinalMergeFails

SpecFaulty == Init /\ [][NextFaulty]_vars

\* ------------------------------------------- runs over an existing output

\* the bytes of an output file left by an earlier, unrelated run
OldOutput == <<9, LF>>

\* as Init, with the output path absent or holding an older file
InitOutput ==
    /\ \E n \in 0..MaxBytes :
           \E s \in [1..n -> Byte], k \in 0..n :
               /\ files = <<SubSeq(s, 1, k), SubSeq(s, k + 1, n)>>
               /\ first_files = files
    /\ max_lines \in 1..MaxChunkLines
    /\ chunk_lines = max_lines
    /\ output \in {<<>>, <<OldOutput>>}
    /\ pc = "for_files"
    /\ file_idx = 1
    /\ reader = 0
    /\ lines_read = <<>>
    /\ chunk = <<>>
    /\ count = 0
    /\ temp_files = <<>>
    /\ built = <<>>
    /\ next_round = <<>>
    /\ group = <<>>
    /\ rounds = 0
    /\ events = <<>>
    /\ created = 0
    /\ on_disk = 0
    /\ open_peak = 0
    /\ sources_peak = 0
    /\ output_creates = 0
    /\ error = NoError
    /\ pass = "first"
    /\ first_output = <<>>
    /\ entry = "lib"
    /\ temp_factory = ReadyFactory
    /\ fsys = AllWritable
    /\ SideIdle

SpecOutput == InitOutput /\ [][NextFaulty]_vars

\* ------------------------------------------ the final merge, step by step

\* what a step of merge_into_writer leaves alone
mergeUnchanged ==
    <<files, max_lines, file_idx, reader, lines_read, chunk, count, temp_files,
      built, next_round, group, rounds, pass, first_files, first_output, events,
      created, on_disk, error, chunk_lines, entry, temp_factory, fsys, gui,
      channel, worker, sent, received, jobs, scan>>

\* File::create(output); merge_into_writer reopens every source and reads
\* the first Line of each into the heap
MergeOpen ==
    /\ pc = "merge_chunks"
    /\ temp_files # <<>>
    /\ Len(temp_files) <= MAX_OPEN_MERGE_FILES
    /\ output' = << <<>> >>
    /\ output_creates' = output_creates + 1
    /\ open_peak' = Max(open_peak, Held + Len(temp_files))
    /\ sources_peak' = Max(sources_peak, Len(temp_files))
    /\ merge_st' = MergeStart(temp_files)
    /\ popped' = <<>>
    /\ pc' = "merging"
    /\ UNCHANGED mergeUnchanged

\* one iteration of the loop of merge_into_writer: heap.pop(), the write
\* unless the Line repeats the last one written, the next Line of that source
MergeStep ==
    /\ pc = "merging"
    /\ merge_st.heap # {}
    /\ popped' = Append(popped, HeapMin(merge_st.heap))
    /\ merge_st' = MergePop(temp_files, merge_st)
    /\ UNCHANGED <<pc, output, output_creates, open_peak, sources_peak>>
    /\ UNCHANGED mergeUnchanged

\* heap.pop() returns None: merge_into_writer returns, writer.flush()
MergeClose ==
    /\ pc = "merging"
    /\ merge_st.heap = {}
    /\ output' = <<merge_st.data>>
    /\ merge_st' = NoMerge
    /\ pc' = "merged"
    /\ UNCHANGED <<popped, output_creates, open_peak, sources_peak>>
    /\ UNCHANGED mergeUnchanged

\* one run of execute_pipeline with the final merge taken step by step
NextHeap ==
    \/ StartFile
    \/ ReadLine
    \/ FinishFile
    \/ BuildReturn
    \/ MergeChunksEmpty
    \/ RoundStart
    \/ GroupPush
    \/ RoundEnd
    \/ MergeOpen
    \/ MergeStep
    \/ MergeClose
    \/ Finish

\* the merge loop is sequential code: it keeps running until it returns
SpecHeap == Init /\ [][NextHeap]_vars /\ WF_vars(MergeStep) /\ WF_vars(MergeClose)

\* ------------------------------------------------- the chunk bound's paths

\* variant of validated_chunk_lines without the floor
ValidatedChunkLinesNoFloor(n) == n

\* Config::validated_chunk_lines: self.chunk_lines.max(1)
ValidatedChunkLines(n) == Max(n, 1)

\* any two input files, any chunk_lines setting from 0 up, any of the three
\* programs; the builder is not constructed yet
InitZero ==
    \E n \in 0..MaxBytes :
        \E s \in [1..n -> Byte], k \in 0..n :
            /\ files = <<SubSeq(s, 1, k), SubSeq(s, k + 1, n)>>
            /\ first_files = files
    /\ chunk_lines \in 0..MaxChunkLines
    /\ entry \in {"lib", "main", "gui"}
    /\ pc = "config"
    /\ max_lines = 0
    /\ file_idx = 1
    /\ reader = 0
    /\ lines_read = <<>>
    /\ chunk = <<>>
    /\ count = 0
    /\ temp_files = <<>>
    /\ built = <<>>
    /\ next_round = <<>>
    /\ group = <<>>
    /\ rounds = 0
    /\ output = <<>>
    /\ events = <<>>
    /\ created = 0
    /\ on_disk = 0
    /\ open_peak = 0
    /\ sources_peak = 0
    /\ output_creates = 0
    /\ error = NoError
    /\ pass = "first"
    /\ first_output = <<>>
    /\ temp_factory = ReadyFactory
    /\ fsys = AllWritable
    /\ SideIdle

\* what constructing the builder leaves alone
builderUnchanged ==
    <<files, file_idx, reader, lines_read, chunk, count, temp_files, built,
      next_round, group, rounds, output, pass, first_files, first_output, events,
      created, on_disk, open_peak, sources_peak, output_creates>>

\* the library: ChunkBuilder::new(config.validated_chunk_lines(), ..)
ConfigLib ==
    /\ pc = "config"
    /\ entry = "lib"
    /\ max_lines' = ValidatedChunkLines(chunk_lines)
    /\ pc' = "for_files"
    /\ UNCHANGED <<builderUnchanged, error>>
    /\ UNCHANGED envVars

\* the command line program: build_chunks(&files, cli.chunk_lines, ..)
ConfigMain ==
    /\ pc = "config"
    /\ entry = "main"
    /\ max_lines' = chunk_lines
    /\ pc' = "for_files"
    /\ UNCHANGED <<builderUnchanged, error>>
    /\ UNCHANGED envVars

\* the GUI: build_config rejects chunk_lines == 0, otherwise the worker
\* calls run_with_progress, the library's path
ConfigGui ==
    /\ pc = "config"
    /\ entry = "gui"
    /\ IF chunk_lines = 0
       THEN /\ pc' = "rejected"
            /\ error' = [stage |-> "config", kind |-> "chunk_lines", file |-> 0]
            /\ UNCHANGED max_lines
       ELSE /\ pc' = "for_files"
            /\ max_lines' = ValidatedChunkLines(chunk_lines)
            /\ UNCHANGED error
    /\ UNCHANGED builderUnchanged
    /\ UNCHANGED envVars

NextZero ==
    \/ ConfigLib
    \/ ConfigMain
    \/ ConfigGui
    \/ RunStep

SpecZero == InitZero /\ [][NextZero]_vars

\* ------------------------------------------------ the scratch allocator

\* any request (no --temp-dir or one of the directories, the output's parent
\* being the system temp directory or not) in any file system
InitScratch ==
    /\ PipelineEntry(<<>>, 1)
    /\ pass = "first"
    /\ first_files = <<>>
    /\ first_output = <<>>
    /\ chunk_lines = 1
    /\ entry = "lib"
    /\ \E preferred \in {<<>>} \cup {<<d>> : d \in Dirs}, out_parent \in {"out", SystemTemp} :
           temp_factory = [state |-> "none", preferred |-> preferred,
                           out_parent |-> out_parent, primary |-> out_parent,
                           fallback |-> <<>>, called |-> FALSE, result |-> NoResult,
                           env |-> AllWritable, placed |-> {}]
    /\ \E e \in SUBSET Dirs, c \in SUBSET Dirs, w \in SUBSET Dirs :
           fsys = [exists |-> e, creatable |-> c, writable |-> w]
    /\ SideIdle

\* what the allocator leaves alone
pipelineVars ==
    <<files, max_lines, pc, file_idx, reader, lines_read, chunk, count,
      temp_files, built, next_round, group, rounds, output, pass, first_files,
      first_output, events, created, on_disk, open_peak, sources_peak,
      output_creates, error, chunk_lines, entry, merge_st, popped, gui,
      channel, worker, sent, received, jobs, scan>>

\* prepare: TempFileFactory::new(config.temp_dir, &config.output)
FactoryNew ==
    /\ temp_factory.state = "none"
    /\ LET r == NewFactory(temp_factory.preferred, temp_factory.out_parent, fsys)
       IN  /\ temp_factory' = [temp_factory EXCEPT
                                  !.state = IF r.ok THEN "ready" ELSE "failed",
                                  !.primary = r.primary,
                                  !.fallback = IF r.ok THEN r.fallback ELSE <<>>]
           /\ fsys' = r.fs
    /\ UNCHANGED pipelineVars

\* temp_factory.create(), in the file system as it is at the call
FactoryCreate ==
    /\ temp_factory.state = "ready"
    /\ LET r == CreateScratch(temp_factory.primary, temp_factory.fallback, fsys)
       IN  temp_factory' = [temp_factory EXCEPT
                               !.called = TRUE,
                               !.result = r,
                               !.env = fsys,
                               !.placed = IF r.ok THEN @ \cup {r.dir[1]} ELSE @]
    /\ UNCHANGED fsys
    /\ UNCHANGED pipelineVars

\* between two calls a directory fills up, is remounted, or gets room again
DiskChanges ==
    /\ temp_factory.state = "ready"
    /\ \E d \in Dirs :
           fsys' = [fsys EXCEPT !.writable =
                        IF d \in @ THEN @ \ {d} ELSE @ \cup {d}]
    /\ UNCHANGED temp_factory
    /\ UNCHANGED pipelineVars

NextScratch ==
    \/ FactoryNew
    \/ FactoryCreate
    \/ DiskChanges

SpecScratch == InitScratch /\ [][NextScratch]_vars

\* ------------------------------------------------ the GUI and its worker

\* MAX_LOGS of poll_worker, scaled down
MAX_LOGS == 2

\* most Log messages one worker sends, most jobs started
MaxSends == 4

MaxJobs == 2

\* no pipeline is running in this process: the state of Init with no files
Parked ==
    /\ PipelineEntry(<<>>, 1)
    /\ pass = "first"
    /\ first_files = <<>>
    /\ first_output = <<>>
    /\ chunk_lines = 1
    /\ entry = "gui"
    /\ temp_factory = ReadyFactory
    /\ fsys = AllWritable

\* MergeGui::default()
InitGui == Parked /\ SideIdle

\* what neither the GUI nor its worker thread touches
guiUnchanged ==
    <<files, max_lines, pc, file_idx, reader, lines_read, chunk, count,
      temp_files, built, next_round, group, rounds, output, pass, first_files,
      first_output, events, created, on_disk, open_peak, sources_peak,
      output_creates, error, chunk_lines, entry, temp_factory, fsys, merge_st,
      popped, scan>>

LogMsg(n) == [type |-> "log", n |-> n, result |-> "none"]

FinishedMsg(result) == [type |-> "finished", n |-> 0, result |-> result]

\* variant of the log cap that discards the newest entries
PushLogDropsNewest(logs, line) ==
    LET pushed == Append(logs, line)
    IN  IF Len(pushed) > MAX_LOGS THEN SubSeq(pushed, 1, MAX_LOGS) ELSE pushed

\* self.logs.push(line); if self.logs.len() > MAX_LOGS { self.logs.drain(0..drain) }
PushLog(logs, line) ==
    LET pushed == Append(logs, line)
        drain  == Len(pushed) - MAX_LOGS
    IN  IF Len(pushed) > MAX_LOGS THEN SubSeq(pushed, drain + 1, Len(pushed)) ELSE pushed

\* the loop of poll_worker over rx.try_recv(): st holds the channel, the GUI
\* fields, the messages received and whether the loop has left; senders is
\* whether a Sender of the channel is still alive
RECURSIVE TryRecvLoop(_, _)
TryRecvLoop(st, senders) ==
    IF st.ch = <<>>
    THEN IF senders
         THEN st
         ELSE [st EXCEPT !.g.processing = FALSE, !.g.status = "disconnected",
                         !.disconnect = TRUE]
    ELSE LET msg == Head(st.ch)
         IN  IF msg.type = "log"
             THEN TryRecvLoop([st EXCEPT !.ch = Tail(@),
                                         !.rcv = Append(@, msg),
                                         !.g.logs = PushLog(@, msg.n)], senders)
             ELSE [st EXCEPT !.ch = Tail(@),
                             !.rcv = Append(@, msg),
                             !.g.processing = FALSE,
                             !.g.status = msg.result,
                             !.disconnect = TRUE]

\* MergeGui::poll_worker, once per frame
PollWorker ==
    /\ IF gui.receiver
       THEN LET st == TryRecvLoop([ch |-> channel, g |-> gui, rcv |-> received,
                                   disconnect |-> FALSE], worker = "running")
            IN  /\ gui' = IF st.disconnect THEN [st.g EXCEPT !.receiver = FALSE] ELSE st.g
                /\ channel' = IF st.disconnect THEN <<>> ELSE st.ch
                /\ received' = st.rcv
       ELSE UNCHANGED <<gui, channel, received>>
    /\ UNCHANGED <<worker, sent, jobs>>
    /\ UNCHANGED guiUnchanged

\* variant of start_processing without the check of self.processing
StartProcessingAlways(valid) ==
    /\ jobs < MaxJobs
    /\ IF ~valid
       THEN /\ gui' = [gui EXCEPT !.status = "invalid"]
            /\ UNCHANGED <<channel, worker, sent, received, jobs>>
       ELSE /\ gui' = [processing |-> TRUE, receiver |-> TRUE, logs |-> <<>>,
                       status |-> "processing", cleared |-> 0]
            /\ channel' = <<>>
            /\ worker' = "running"
            /\ sent' = <<>>
            /\ received' = <<>>
            /\ jobs' = jobs + 1
    /\ UNCHANGED guiUnchanged

\* MergeGui::start_processing; valid is whether build_config returns Ok
StartProcessing(valid) ==
    /\ (~gui.processing /\ valid) => jobs < MaxJobs
    /\ IF gui.processing
       THEN /\ gui' = [gui EXCEPT !.status = "busy"]
            /\ UNCHANGED <<channel, worker, sent, received, jobs>>
       ELSE IF ~valid
       THEN /\ gui' = [gui EXCEPT !.status = "invalid"]
            /\ UNCHANGED <<channel, worker, sent, received, jobs>>
       ELSE /\ gui' = [processing |-> TRUE, receiver |-> TRUE, logs |-> <<>>,
                       status |-> "processing", cleared |-> 0]
            /\ channel' = <<>>
            /\ worker' = "running"
            /\ sent' = <<>>
            /\ received' = <<>>
            /\ jobs' = jobs + 1
    /\ UNCHANGED guiUnchanged

\* the "Limpar logs" button: self.logs.clear()
ClearLogs ==
    /\ gui' = [gui EXCEPT !.logs = <<>>,
                          !.cleared = Len(SelectSeq(received, LAMBDA m : m.type = "log"))]
    /\ UNCHANGED <<channel, worker, sent, received, jobs>>
    /\ UNCHANGED guiUnchanged

\* the worker thread: a ProgressSink callback of GuiProgress sends a Log
\* (`let _ = self.tx.send(..)`: a send to a dropped receiver is ignored)
WorkerLog ==
    /\ worker = "running"
    /\ Len(sent) < MaxSends
    /\ sent' = Append(sent, LogMsg(Len(sent) + 1))
    /\ channel' = IF gui.receiver THEN Append(channel, LogMsg(Len(sent) + 1)) ELSE channel
    /\ UNCHANGED <<gui, worker, received, jobs>>
    /\ UNCHANGED guiUnchanged

\* the worker thread: run_with_progress returned; tx.send(Finished(result)),
\* then the closure ends and every Sender is dropped
WorkerFinish ==
    /\ worker = "running"
    /\ \E result \in {"ok", "err"} :
           /\ sent' = Append(sent, FinishedMsg(result))
           /\ channel' = IF gui.receiver
                         THEN Append(channel, FinishedMsg(result)) ELSE channel
    /\ worker' = "returned"
    /\ UNCHANGED <<gui, received, jobs>>
    /\ UNCHANGED guiUnchanged

\* the worker thread unwinds inside run_with_progress: every Sender is
\* dropped and no Finished is sent
WorkerPanics ==
    /\ worker = "running"
    /\ worker' = "panicked"
    /\ UNCHANGED <<gui, channel, sent, received, jobs>>
    /\ UNCHANGED guiUnchanged

NextGui ==
    \/ PollWorker
    \/ \E valid \in BOOLEAN : StartProcessing(valid)
    \/ ClearLogs
    \/ WorkerLog
    \/ WorkerFinish
    \/ WorkerPanics

SpecGui == InitGui /\ [][NextGui]_vars

\* ------------------------------------------------------ input discovery

\* the paths of a small directory tree, as sequences of components:
\* d, d/a.txt, d/b.TXT, d/c.csv, d/n.txt, d/n.txt/e.Txt, x.txt, y
TreePaths == {<<1>>, <<1, 1>>, <<1, 2>>, <<1, 3>>, <<1, 4>>, <<1, 4, 1>>, <<2>>, <<3>>}

\* Path::extension() of each, "" for None
ExtOf ==
    [p \in TreePaths |->
        CASE p = <<1, 1>>    -> "txt"
          [] p = <<1, 2>>    -> "TXT"
          [] p = <<1, 3>>    -> "csv"
          [] p = <<1, 4>>    -> "txt"
          [] p = <<1, 4, 1>> -> "Txt"
          [] p = <<2>>       -> "txt"
          [] OTHER           -> ""]

\* str::to_ascii_lowercase on the extensions in use
Lower(e) == CASE e = "TXT" -> "txt" [] e = "Txt" -> "txt" [] OTHER -> e

\* component 0 is a leading `.` (Component::CurDir): <<0>> \o p spells the
\* same file as p; Strip gives the spelling without it
Strip(p) == IF p # <<>> /\ p[1] = 0 THEN Tail(p) ELSE p

\* what is at a path: "file", "dir" or "absent"
KindOf(kind, p) == IF Strip(p) \in DOMAIN kind THEN kind[Strip(p)] ELSE "absent"

\* fs::canonicalize(p).unwrap_or_else(|_| p.to_path_buf())
Canonical(kind, p) == IF KindOf(kind, p) # "absent" THEN Strip(p) ELSE p

\* variant of same_file that compares the paths as they are spelled
SameFileAsSpelled(kind, a, b) == a = b

\* same_file: equality of the canonical paths
SameFile(kind, a, b) == Canonical(kind, a) = Canonical(kind, b)

\* has_matching_ext: an extension equal to ext, ASCII case ignored
HasMatchingExt(p, ext) ==
    /\ Strip(p) \in TreePaths
    /\ ExtOf[Strip(p)] # ""
    /\ Lower(ExtOf[Strip(p)]) = Lower(ext)

\* the entries fs::read_dir (depth 1) or WalkDir (any depth) yields for dir
Entries(kind, dir, recursive) ==
    {dir \o SubSeq(q, Len(Strip(dir)) + 1, Len(q)) :
        q \in {q \in TreePaths :
                  /\ kind[q] # "absent"
                  /\ Len(q) > Len(Strip(dir))
                  /\ SubSeq(q, 1, Len(Strip(dir))) = Strip(dir)
                  /\ recursive \/ Len(q) = Len(Strip(dir)) + 1}}

\* the filter of collect_shallow and collect_recursive
Accepted(kind, p, ext, out) ==
    /\ KindOf(kind, p) = "file"
    /\ HasMatchingExt(p, ext)
    /\ ~SameFile(kind, p, out)

\* every order in which a directory iterator can yield the paths of S
Orders(S) ==
    {s \in [1..Cardinality(S) -> S] : \A i, j \in 1..Cardinality(S) : s[i] = s[j] => i = j}

\* the trees: a child exists only in a directory
Trees ==
    {kind \in [TreePaths -> {"file", "dir", "absent"}] :
        /\ \A p \in TreePaths :
               (Len(p) > 1 /\ kind[p] # "absent") => kind[SubSeq(p, 1, Len(p) - 1)] = "dir"
        /\ \A p \in {<<1, 1>>, <<1, 2>>, <<1, 3>>, <<1, 4, 1>>, <<2>>, <<3>>} : kind[p] # "dir"
        /\ kind[<<1>>] # "file"}

\* the inputs a Config can list, and the output paths
InputChoices == {<<1>>, <<0, 1>>, <<2>>, <<3>>}

OutputChoices == {<<1, 1>>, <<0, 1, 1>>, <<2>>}

\* most paths in Config.inputs
MaxInputs == 2

\* entry of collect_input_files, for any tree and any Config
InitScan ==
    /\ Parked
    /\ merge_st = NoMerge
    /\ popped = <<>>
    /\ gui = DefaultGui
    /\ channel = <<>>
    /\ worker = "none"
    /\ sent = <<>>
    /\ received = <<>>
    /\ jobs = 0
    /\ \E kind \in Trees, n \in 1..MaxInputs, recursive \in BOOLEAN,
          ext \in {"txt", "TXT"}, out \in OutputChoices :
           \E inputs \in [1..n -> InputChoices] :
               scan = [kind |-> kind, inputs |-> inputs, recursive |-> recursive,
                       ext |-> ext, output |-> out, at |-> 1, files |-> <<>>,
                       result |-> "none"]

\* what collect_input_files leaves alone
scanUnchanged ==
    <<files, max_lines, pc, file_idx, reader, lines_read, chunk, count,
      temp_files, built, next_round, group, rounds, output, pass, first_files,
      first_output, events, created, on_disk, open_peak, sources_peak,
      output_creates, error, chunk_lines, entry, temp_factory, fsys, merge_st,
      popped, gui, channel, worker, sent, received, jobs>>

\* one iteration of `for input in &config.inputs`
ScanInput ==
    /\ scan.result = "none"
    /\ scan.at <= Len(scan.inputs)
    /\ LET input == scan.inputs[scan.at]
       IN  IF KindOf(scan.kind, input) = "dir"
           THEN \E order \in Orders({p \in Entries(scan.kind, input, scan.recursive) :
                                        Accepted(scan.kind, p, scan.ext, scan.output)}) :
                    scan' = [scan EXCEPT !.files = @ \o order, !.at = @ + 1]
           ELSE IF KindOf(scan.kind, input) = "file"
           THEN scan' = [scan EXCEPT
                            !.files = IF /\ HasMatchingExt(input, scan.ext)
                                         /\ ~SameFile(scan.kind, input, scan.output)
                                      THEN Append(@, input) ELSE @,
                            !.at = @ + 1]
           ELSE scan' = [scan EXCEPT !.result = "invalid_path"]
    /\ UNCHANGED scanUnchanged

\* fs::read_dir or an entry of the walk returns Err: the error is returned
ScanWalkFails ==
    /\ scan.result = "none"
    /\ scan.at <= Len(scan.inputs)
    /\ KindOf(scan.kind, scan.inputs[scan.at]) = "dir"
    /\ scan' = [scan EXCEPT !.result = "walk_error"]
    /\ UNCHANGED scanUnchanged

\* after the loop: the error for an empty list, else files.sort() and Ok
ScanReturn ==
    /\ scan.result = "none"
    /\ scan.at > Len(scan.inputs)
    /\ scan' = IF scan.files = <<>>
               THEN [scan EXCEPT !.result = "no_files"]
               ELSE [scan EXCEPT !.files = SortUnstable(@), !.result = "ok"]
    /\ UNCHANGED scanUnchanged

NextScan ==
    \/ ScanInput
    \/ ScanWalkFails
    \/ ScanReturn

SpecScan == InitScan /\ [][NextScan]_vars

\* ------------------------------------------------- vocabulary of the claims

\* the pieces of a byte stream between LF bytes; bytes after the last LF are
\* a piece only when there are any
RECURSIVE SplitAtLF(_, _)
SplitAtLF(bytes, cur) ==
    IF bytes = <<>> THEN (IF cur = <<>> THEN <<>> ELSE <<cur>>)
    ELSE IF Head(bytes) = LF THEN <<cur>> \o SplitAtLF(Tail(bytes), <<>>)
    ELSE SplitAtLF(Tail(bytes), Append(cur, Head(bytes)))

\* the records of a file in the output format: what stands before each LF
Records(bytes) == SplitAtLF(bytes, <<>>)

\* every record of the file is ended by LF
Terminated(bytes) == bytes = <<>> \/ bytes[Len(bytes)] = LF

StripOneCR(piece) ==
    IF piece # <<>> /\ piece[Len(piece)] = CR THEN SubSeq(piece, 1, Len(piece) - 1)
    ELSE piece

\* the framing the Line Framer is specified to produce
ExpectedFrame(bytes) ==
    LET pieces == Records(bytes)
    IN  [i \in 1..Len(pieces) |-> StripOneCR(pieces[i])]

Range(seq) == {seq[i] : i \in 1..Len(seq)}

StrictlyAscending(ls) == \A i \in 1..(Len(ls) - 1) : LexLess(ls[i], ls[i + 1])

NoRepeat(ls) == \A i, j \in 1..Len(ls) : ls[i] = ls[j] => i = j

\* the ascending sequence of the Lines of a finite set
RECURSIVE Ascending(_)
Ascending(S) ==
    IF S = {} THEN <<>>
    ELSE LET m == CHOOSE x \in S : \A y \in S : LexLeq(x, y)
         IN  <<m>> \o Ascending(S \ {m})

\* all Lines of a file list, in reading order
RECURSIVE LinesOf(_)
LinesOf(fs) ==
    IF fs = <<>> THEN <<>> ELSE ReadAllLines(Head(fs)) \o LinesOf(Tail(fs))

\* the Lines the cursors of merge_into_writer yield from the given Runs
SourceLines(runs) == UNION {Range(ReadAllLines(runs[i].data)) : i \in 1..Len(runs)}

\* every scratch file some owner holds
LiveTempFiles == Range(temp_files) \cup Range(group) \cup Range(next_round)

BuildDone == pc \notin {"for_files", "read"}

\* ------------------------------------------------------------------ claims

\* C1: when a run has succeeded, the records of the output file are exactly
\* the distinct Lines framed from all input files, each once, in strictly
\* ascending byte order.
C1_OutputIsSortedDistinctLines ==
    (pc = "done" /\ pass = "first") =>
        /\ Terminated(output[1])
        /\ Records(output[1]) = Ascending(Range(LinesOf(files)))

\* C2: reading a scratch Run back with read_next_line yields exactly the
\* sequence of Lines that was written into it.
C2_RoundTripPreservesLines ==
    \A t \in LiveTempFiles : ReadAllLines(t.data) = t.written

\* C3: when reduction rounds were needed, the output equals that of one
\* unbounded merge_into_writer over the Runs the builder returned, and it is
\* strictly ascending.
C3_RoundsEqualSingleMerge ==
    (pc = "done" /\ rounds > 0) =>
        /\ output[1] = MergeIntoWriter(built).data
        /\ StrictlyAscending(Records(output[1]))

\* C4: given at most K Runs whose cursors each yield a strictly ascending
\* sequence, merge_into_writer writes the ascending union of their Lines,
\* every distinct Line once, each followed by one LF.
C4_MergeWritesSortedUnion ==
    ( /\ pc = "merged"
      /\ temp_files # <<>>
      /\ \A i \in 1..Len(temp_files) :
             StrictlyAscending(ReadAllLines(temp_files[i].data)) ) =>
        /\ Len(temp_files) <= MAX_OPEN_MERGE_FILES
        /\ Terminated(output[1])
        /\ Records(output[1]) = Ascending(SourceLines(temp_files))

\* two ascending Runs that share a Line have been merged into the output
C4_Witness ==
    /\ pc = "merged"
    /\ Len(temp_files) = 2
    /\ \A i \in 1..2 : StrictlyAscending(ReadAllLines(temp_files[i].data))
    /\ \A i \in 1..2 : Len(ReadAllLines(temp_files[i].data)) = 2
    /\ Range(ReadAllLines(temp_files[1].data)) \cap Range(ReadAllLines(temp_files[2].data)) # {}
    /\ Len(Records(output[1])) >= 2

\* C5: every Run build returns is strictly ascending, and together the Runs
\* hold exactly the distinct Lines of the input files.
C5_RunsSortedAndCoverInput ==
    BuildDone =>
        /\ \A i \in 1..Len(built) :
               /\ Terminated(built[i].data)
               /\ StrictlyAscending(Records(built[i].data))
        /\ UNION {Range(Records(built[i].data)) : i \in 1..Len(built)}
               = Range(LinesOf(files))

\* three Lines, two of them equal, chunk bound 2: a full and a partial chunk
C5_Witness ==
    /\ pc = "merge_chunks"
    /\ rounds = 0
    /\ max_lines = 2
    /\ Len(LinesOf(files)) = 3
    /\ Cardinality(Range(LinesOf(files))) = 2
    /\ Len(built) = 2

\* C6: the number of Runs build returns is ceil(L / B) for L Lines in all
\* files and bound B, whatever the split of the Lines among the files.
C6_RunCountIsCeiling ==
    BuildDone =>
        LET L == Len(LinesOf(files))
        IN  /\ Len(built) * max_lines >= L
            /\ Len(built) > 0 => (Len(built) - 1) * max_lines < L

\* the first file ended inside a chunk, and the Run flushed next holds Lines
\* of both files
C6_Witness ==
    /\ pc = "merge_chunks"
    /\ rounds = 0
    /\ Len(files) = 2
    /\ max_lines = 2
    /\ Len(ReadAllLines(files[1])) = 1
    /\ Len(ReadAllLines(files[2])) = 1
    /\ Len(built) = 1
    /\ Len(built[1].written) = 2

\* C7: a run on the output file of a first run as the sole input yields a
\* byte-identical output file.
C7_RerunOnOutputIsIdentical ==
    (pc = "done" /\ pass = "again") => output[1] = first_output

\* C8: a run on the same files listed in another order yields the same
\* output bytes.
C8_PermutedRunIsIdentical ==
    (pc = "done" /\ pass = "permuted") => output[1] = first_output

\* C9: every output record is ended by one LF, no two records are equal, and
\* inputs holding the same Lines in another terminator style give the same
\* output bytes.
C9_OutputFormat ==
    pc = "done" =>
        /\ Terminated(output[1])
        /\ NoRepeat(Records(output[1]))
        /\ pass = "restyled" => output[1] = first_output

\* C10: the Lines read_next_line yields from a file are the pieces between
\* its LF bytes, a final piece without LF included when not empty, each
\* without one trailing CR; no Line holds an LF.
C10_FramingAsSpecified ==
    /\ pc = "read" =>
           lines_read = ExpectedFrame(SubSeq(files[file_idx], 1, reader))
    /\ (pc = "for_files" /\ file_idx > 1) =>
           lines_read = ExpectedFrame(files[file_idx - 1])
    /\ \A l \in Range(lines_read) : LF \notin Range(l)

\* a file with a CR LF terminator, an empty Line and a final fragment ending
\* in CR has been read to its end
C10_Witness ==
    /\ pc = "for_files"
    /\ file_idx = 2
    /\ \E i \in 1..(Len(files[1]) - 1) : files[1][i] = CR /\ files[1][i + 1] = LF
    /\ \E i \in 1..(Len(files[1]) - 1) : files[1][i] = LF /\ files[1][i + 1] = LF
    /\ files[1][Len(files[1])] = CR
    /\ Len(lines_read) = 3

\* the names of the progress events emitted so far in this run
EventNames == {events[i].ev : i \in 1..Len(events)}

\* the positions in the event sequence that hold an event of that name
EventsNamed(name) == {i \in 1..Len(events) : events[i].ev = name}

\* C11: when the build produced zero Runs, merge_chunks creates a zero-byte
\* output file, creates no scratch file, emits no merge_round and returns Ok;
\* the orchestrator emits no start_merge and still emits finish.
C11_EmptyInputGivesEmptyOutput ==
    (pc \in {"merged", "done"} /\ built = <<>>) =>
        /\ output = << <<>> >>
        /\ output_creates = 1
        /\ created = 0
        /\ on_disk = 0
        /\ rounds = 0
        /\ "merge_round" \notin EventNames
        /\ "start_merge" \notin EventNames
        /\ error = NoError
        /\ pc = "done" => (events # <<>> /\ Last(events).ev = "finish")

\* a first run over two files without any Line has finished
C11_Witness ==
    /\ pc = "done"
    /\ pass = "first"
    /\ built = <<>>
    /\ Len(files) = 2
    /\ "finish" \in EventNames

\* the builder is inside `for path in files` (a loop head of build)
InBuild == pc \in {"for_files", "read"}

\* at a loop head the counter is the Chunk's length and one more Line fits
ChunkWithinBound ==
    InBuild => (count = Len(chunk) /\ Len(chunk) + 1 <= max_lines)

\* a step of build that pushes a Line flushes when the Chunk reaches the
\* bound, and every flush leaves the Chunk empty and the counter at zero
FlushAtBound ==
    InBuild =>
        /\ Len(chunk') <= max_lines
        /\ Len(chunk') <= Len(chunk) + 1
        /\ (Len(lines_read') > Len(lines_read) /\ Len(chunk) + 1 = max_lines) =>
               (chunk' = <<>> /\ Len(temp_files') = Len(temp_files) + 1)
        /\ (Len(lines_read') > Len(lines_read) /\ Len(chunk) + 1 < max_lines) =>
               (chunk' = Append(chunk, Last(lines_read')) /\ temp_files' = temp_files)
        /\ Len(temp_files') > Len(temp_files) =>
               (chunk' = <<>> /\ (pc' = "read" => count' = 0))

\* C15: for a bound B >= 1 the Chunk never holds more than B Lines during
\* build; the counter equals its length at each loop head; it is flushed and
\* emptied as soon as it reaches B and is empty right after every flush.
C15_ChunkNeverExceedsBound ==
    /\ [](max_lines >= 1 => ChunkWithinBound)
    /\ [][max_lines >= 1 => FlushAtBound]_vars

\* with bound 2, the builder is back at the loop head right after a flush
\* that the second Line of a Chunk triggered, and after an earlier flush
C15_Witness ==
    /\ pc = "read"
    /\ max_lines = 2
    /\ Len(temp_files) = 2
    /\ chunk = <<>>
    /\ count = 0
    /\ Len(lines_read) >= 2

\* merge_into_writer was never given more sources than the fan-in constant
SourcesWithinFanIn == sources_peak <= MAX_OPEN_MERGE_FILES

\* C16: in every state of merge_chunks the number of file handles open at
\* once (one per Run held plus the read cursors of merge_into_writer) is at
\* most MAX_OPEN_MERGE_FILES, and merge_into_writer never gets more than
\* MAX_OPEN_MERGE_FILES sources.
C16_OpenHandlesWithinFanIn ==
    /\ open_peak <= MAX_OPEN_MERGE_FILES
    /\ SourcesWithinFanIn

\* the events build emits for file i: start_file, one on_line per Line, finish_file
FileEvents(i) ==
    <<Event("start_file", i)>>
        \o [k \in 1..Len(ReadAllLines(files[i])) |-> Event("on_line", 0)]
        \o <<Event("finish_file", i)>>

\* the events build emits for the files i.., in list order
RECURSIVE BuildEvents(_)
BuildEvents(i) ==
    IF i > Len(files) THEN <<>> ELSE FileEvents(i) \o BuildEvents(i + 1)

\* start_merge(n) once iff the build returned n > 0 Runs
StartMergeEvents ==
    IF built # <<>> THEN <<Event("start_merge", Len(built))>> ELSE <<>>

\* C20: a successful run emits, per file in list order, start_file, one
\* on_line per Line and finish_file; then start_merge(n) once iff the build
\* returned n > 0 Runs; then only merge_round events; then finish once, last.
C20_EventOrderOfSuccessfulRun ==
    pc = "done" =>
        LET head  == BuildEvents(1) \o StartMergeEvents
            first == Len(head) + 1
            last  == Len(events)
        IN  /\ last = Len(head) + rounds + 1
            /\ SubSeq(events, 1, Len(head)) = head
            /\ \A i \in first..(last - 1) : events[i].ev = "merge_round"
            /\ events[last] = Event("finish", 0)
            /\ EventsNamed("finish") = {last}
            /\ EventsNamed("start_merge") \subseteq {Len(head)}

\* a run over two files with Lines in both, three Runs and a merge round
\* has finished
C20_Witness ==
    /\ pc = "done"
    /\ Len(files) = 2
    /\ ReadAllLines(files[1]) # <<>>
    /\ ReadAllLines(files[2]) # <<>>
    /\ Len(built) = 3
    /\ rounds = 1
    /\ "merge_round" \in EventNames
    /\ "start_merge" \in EventNames
    /\ Last(events).ev = "finish"

\* execute_pipeline has returned, with Ok or with an error
Returned == pc \in {"done", "failed"}

\* C12: a scratch file exists only while an owner holds it (the Run list,
\* a merge group, next_round, the rest of the round's list); when
\* execute_pipeline has returned, with Ok or with an error of any step of
\* build or merge, no scratch file created by the run exists.
C12_NoScratchFileOutlivesRun ==
    /\ on_disk = Held
    /\ on_disk <= created
    /\ Returned => (on_disk = 0 /\ LiveTempFiles = {})

\* a merge round failed after its scratch file was created, with three Runs
\* and the file being written on disk just before
C12_Witness ==
    /\ pc = "failed"
    /\ error.stage = "merge"
    /\ error.kind = "write"
    /\ Len(built) = 3
    /\ created = 4
    /\ on_disk = 0

\* build returned an error
BuildFailed == pc = "failed" /\ error.stage = "build"

\* merge_chunks returned an error
MergeFailed == pc = "failed" /\ error.stage = "merge"

\* what holds once build has returned an error
BuildFailureIsFinal ==
    BuildFailed =>
        /\ output = <<>>
        /\ output_creates = 0
        /\ built = <<>>
        /\ temp_files = <<>>
        /\ rounds = 0
        /\ EventNames \cap {"start_merge", "merge_round", "finish"} = {}
        /\ error.kind \in {"open", "read"} =>
               /\ error.file = file_idx
               /\ \A i \in EventsNamed("finish_file") : events[i].arg # error.file
               /\ \A i \in EventsNamed("start_file") : events[i].arg <= error.file
               /\ Cardinality({i \in EventsNamed("start_file") :
                                   events[i].arg = error.file}) = 1
        /\ Cardinality(EventsNamed("start_file")) =
               Cardinality(EventsNamed("finish_file")) +
                   (IF error.file = 0 THEN 0 ELSE 1)

\* C17: when opening or reading an input file, or creating or writing a
\* scratch Run fails, build returns the error at once (a read error carries
\* the file): no finish_file for the failing file, no later file opened, no
\* Run returned, no retry, no merge phase, and the output file is neither
\* created nor truncated.
C17_BuildFailureIsFailFast ==
    /\ []BuildFailureIsFinal
    /\ [][~BuildFailed]_vars

\* reading the first of two files failed after a Run had been flushed
C17_Witness ==
    /\ BuildFailed
    /\ error.kind = "read"
    /\ error.file = 1
    /\ Len(files[2]) > 0
    /\ created >= 1
    /\ Len(lines_read) >= 1

\* C18: when reopening or reading a Run, creating an intermediate scratch
\* file or writing the intermediate or final output fails, merge_chunks
\* returns the error at once: no later group or round, no further
\* merge_round event, and finish is never emitted; finish is emitted only
\* after merge_chunks returned Ok.
C18_MergeFailureIsFailFast ==
    /\ [](MergeFailed => ("finish" \notin EventNames /\ LiveTempFiles = {}))
    /\ []("finish" \in EventNames => (pc = "done" /\ error = NoError))
    /\ [][~MergeFailed]_vars
    /\ [][(pc' = "failed" /\ error'.stage = "merge") =>
              (events' = events /\ rounds' = rounds /\ created' <= created + 1)]_vars

\* a merge round failed while reading a Run, after the build returned three Runs
C18_Witness ==
    /\ MergeFailed
    /\ error.kind = "read"
    /\ Len(built) = 3
    /\ "start_merge" \in EventNames
    /\ "merge_round" \notin EventNames

\* the Runs a builder with bound 1 produces: one Run per Line, in reading order
RunsOfBoundOne ==
    [i \in 1..Len(LinesOf(files)) |-> FlushedFile(<<LinesOf(files)[i]>>)]

\* C19: a chunk bound of 0 is rejected before the pipeline starts (GUI) or
\* acts as a bound of 1: validated_chunk_lines gives max(chunk_lines, 1) to
\* the library's builder, and a builder given 0 directly flushes after every
\* Line and produces exactly the Runs of bound 1.
C19_ZeroBoundIsRejectedOrOne ==
    /\ (entry = "gui" /\ chunk_lines = 0) => pc \in {"config", "rejected"}
    /\ pc = "rejected" => (events = <<>> /\ created = 0 /\ output = <<>>)
    /\ (entry \in {"lib", "gui"} /\ pc \notin {"config", "rejected"}) =>
           (max_lines >= 1 /\ max_lines = Max(chunk_lines, 1))
    /\ (entry = "main" /\ pc # "config") => max_lines = chunk_lines
    /\ (InBuild /\ chunk_lines <= 1) => (chunk = <<>> /\ count = 0)
    /\ (BuildDone /\ pc \notin {"config", "rejected"} /\ chunk_lines <= 1) =>
           built = RunsOfBoundOne

\* the command line program has built three Runs from three Lines with a
\* chunk bound of 0 passed to the builder as it is
C19_Witness ==
    /\ entry = "main"
    /\ chunk_lines = 0
    /\ max_lines = 0
    /\ pc = "merge_chunks"
    /\ Len(built) = 3
    /\ Len(LinesOf(files)) = 3

\* create() has been called on a factory that new() returned
Allocated == temp_factory.state = "ready" /\ temp_factory.called

\* C13: after new(None, output), a create() made while the primary directory
\* cannot be written and the system temp directory can succeeds with a file
\* in the fallback directory; a create() made while neither can be written
\* fails with one error that names the primary and the fallback location and
\* says to supply an explicit directory.
C13_FallbackWhenPrimaryUnwritable ==
    (Allocated /\ temp_factory.preferred = <<>>
               /\ ~CreateIn(temp_factory.env, temp_factory.primary)) =>
        IF CreateIn(temp_factory.env, SystemTemp)
        THEN /\ temp_factory.result.ok
             /\ temp_factory.result.dir = <<SystemTemp>>
             /\ temp_factory.fallback = <<SystemTemp>>
             /\ SystemTemp \in temp_factory.placed
        ELSE /\ ~temp_factory.result.ok
             /\ temp_factory.result.dir = <<>>
             /\ temp_factory.result.named = {temp_factory.primary, SystemTemp}
             /\ temp_factory.result.hint

\* create() was called once with the output's directory read-only and the
\* system temp directory writable, and once more after that one filled up
C13_Witness ==
    /\ Allocated
    /\ temp_factory.preferred = <<>>
    /\ temp_factory.primary = "out"
    /\ ~CreateIn(temp_factory.env, "out")
    /\ ~CreateIn(temp_factory.env, SystemTemp)
    /\ temp_factory.placed = {SystemTemp}
    /\ ~temp_factory.result.ok

\* C14: create() tries the primary first and returns its file when that
\* succeeds; there is a fallback only without an explicit directory and with
\* a system temp directory other than the primary; otherwise a failed
\* primary creation is followed by no second attempt and the error names
\* only the primary; every scratch file lives in the primary or the fallback.
C14_FallbackOnlyWithoutExplicitDir ==
    /\ temp_factory.state = "ready" =>
           /\ temp_factory.primary =
                  (IF temp_factory.preferred # <<>>
                   THEN temp_factory.preferred[1] ELSE temp_factory.out_parent)
           /\ temp_factory.fallback # <<>> <=>
                  (temp_factory.preferred = <<>> /\ SystemTemp # temp_factory.primary)
           /\ temp_factory.fallback \in {<<>>, <<SystemTemp>>}
           /\ temp_factory.placed \subseteq
                  {temp_factory.primary} \cup Range(temp_factory.fallback)
    /\ Allocated =>
           /\ Head(temp_factory.result.tried) = temp_factory.primary
           /\ CreateIn(temp_factory.env, temp_factory.primary) =>
                  /\ temp_factory.result.ok
                  /\ temp_factory.result.dir = <<temp_factory.primary>>
                  /\ temp_factory.result.tried = <<temp_factory.primary>>
           /\ (temp_factory.preferred # <<>> \/ SystemTemp = temp_factory.primary) =>
                  /\ temp_factory.result.tried = <<temp_factory.primary>>
                  /\ ~CreateIn(temp_factory.env, temp_factory.primary) =>
                         /\ ~temp_factory.result.ok
                         /\ temp_factory.result.named = {temp_factory.primary}
           /\ temp_factory.result.ok =>
                  temp_factory.result.dir[1] \in
                      {temp_factory.primary} \cup Range(temp_factory.fallback)

\* with an explicit directory that cannot be written and a writable system
\* temp directory, create() failed after files had been placed in the
\* explicit directory only
C14_Witness ==
    /\ Allocated
    /\ temp_factory.preferred = <<"custom">>
    /\ ~CreateIn(temp_factory.env, "custom")
    /\ CreateIn(temp_factory.env, SystemTemp)
    /\ ~temp_factory.result.ok
    /\ temp_factory.placed = {"custom"}

\* ceil(n / k)
Ceil(n, k) == (n + k - 1) \div k

Min(a, b) == IF a <= b THEN a ELSE b

\* the Run counts of the merge so far: the count build returned, then the
\* argument of every merge_round event, in order
RunCounts ==
    <<Len(built)>> \o
        [i \in 1..Cardinality(EventsNamed("merge_round")) |->
            events[CHOOSE p \in EventsNamed("merge_round") :
                       Cardinality({q \in EventsNamed("merge_round") : q <= p}) = i].arg]

\* the Run list one round makes of the list runs: consecutive groups of
\* MAX_OPEN_MERGE_FILES, then the remainder, each group giving one Run
RoundOf(runs) ==
    [j \in 1..Ceil(Len(runs), MAX_OPEN_MERGE_FILES) |->
        LET g == SubSeq(runs, (j - 1) * MAX_OPEN_MERGE_FILES + 1,
                        Min(j * MAX_OPEN_MERGE_FILES, Len(runs)))
        IN  IF Len(g) = 1 THEN g[1] ELSE MergeGroupIntoTemp(g)]

\* the Run list after r rounds
RECURSIVE AfterRounds(_, _)
AfterRounds(runs, r) == IF r = 0 THEN runs ELSE AfterRounds(RoundOf(runs), r - 1)

\* C24: while more than K Runs remain, a round replaces the n Runs by the
\* ceil(n / K) Runs of its consecutive groups of K (and a last remainder
\* group), in group order, then emits merge_round(ceil(n / K)) once; the
\* counts strictly decrease; no merge_round when at most K Runs were built;
\* the loop ends with 1..K Runs, which are merged directly into the output.
C24_RoundsReduceByFanIn ==
    BuildDone =>
        /\ Len(RunCounts) = rounds + 1
        /\ \A i \in 2..Len(RunCounts) :
               /\ RunCounts[i - 1] > MAX_OPEN_MERGE_FILES
               /\ RunCounts[i] = Ceil(RunCounts[i - 1], MAX_OPEN_MERGE_FILES)
               /\ RunCounts[i] < RunCounts[i - 1]
        /\ Len(built) <= MAX_OPEN_MERGE_FILES => "merge_round" \notin EventNames
        /\ pc \in {"merge_chunks", "merged"} =>
               /\ temp_files = AfterRounds(built, rounds)
               /\ Len(temp_files) = Last(RunCounts)
        /\ pc = "round" =>
               /\ Len(group) < MAX_OPEN_MERGE_FILES
               /\ Last(RunCounts) =
                      Len(temp_files) + Len(group) + MAX_OPEN_MERGE_FILES * Len(next_round)
               /\ \A j \in 1..Len(next_round) :
                      next_round[j] = RoundOf(AfterRounds(built, rounds))[j]
        /\ (pc = "merged" /\ built # <<>>) =>
               /\ Len(temp_files) \in 1..MAX_OPEN_MERGE_FILES
               /\ output = <<MergeIntoWriter(temp_files).data>>

\* five Runs were reduced to three and then to two, which the final merge
\* wrote to the output
C24_Witness ==
    /\ pc = "merged"
    /\ Len(built) = 5
    /\ rounds = 2
    /\ RunCounts = <<5, 3, 2>>
    /\ Len(temp_files) = 2

\* the step ends a round whose last group holds exactly one Run
PassThroughStep == pc = "round" /\ temp_files = <<>> /\ Len(group) = 1

\* the step merges a group of two or more Runs
GroupMergeStep ==
    /\ pc = "round"
    /\ IF temp_files # <<>>
       THEN Len(group) + 1 = MAX_OPEN_MERGE_FILES
       ELSE Len(group) >= 2

\* the group the step merges
MergedGroup == IF temp_files # <<>> THEN Append(group, Head(temp_files)) ELSE group

\* the Run list the step adds a Run to
RoundList == IF temp_files # <<>> THEN next_round' ELSE temp_files'

\* C25: a last group of exactly one Run moves to the next round as the same
\* scratch file with unchanged content, not reopened or read, and no scratch
\* file is created; a group of two or more Runs is replaced by one fresh
\* scratch file and its Runs are deleted when its merge completes, before
\* the next group is merged.
C25_SingleRunPassesThrough ==
    /\ [][PassThroughStep =>
              /\ temp_files' = Append(next_round, group[1])
              /\ created' = created
              /\ on_disk' = on_disk
              /\ open_peak' = open_peak
              /\ sources_peak' = sources_peak]_vars
    /\ [][GroupMergeStep =>
              /\ RoundList = Append(next_round, MergeGroupIntoTemp(MergedGroup))
              /\ group' = <<>>
              /\ created' = created + 1
              /\ on_disk' = (on_disk + 1) - Len(MergedGroup)
              /\ sources_peak' >= Len(MergedGroup)]_vars
    /\ [](pc = "round" => on_disk = Held)

\* a round has ended in which the third Run, whose bytes a merge would have
\* rewritten, was passed on as it was, after the first two were merged
C25_Witness ==
    /\ pc = "merge_chunks"
    /\ rounds = 1
    /\ Len(built) = 3
    /\ Len(temp_files) = 2
    /\ temp_files[2] = built[3]
    /\ MergeGroupIntoTemp(<<built[3]>>) # built[3]
    /\ created = 4
    /\ on_disk = 2

\* the step is File::create(output): it is taken by merge_chunks outside any
\* round, on the Run list all completed rounds left, of at most K Runs
CreatesOutputAtFinalMerge ==
    /\ pc = "merge_chunks"
    /\ group = <<>>
    /\ next_round = <<>>
    /\ Len(temp_files) <= MAX_OPEN_MERGE_FILES
    /\ temp_files = AfterRounds(built, rounds)
    /\ output_creates' = output_creates + 1
    /\ pc' \in {"merged", "failed"}

\* C26: the output file is created or truncated exactly once per
\* merge_chunks call that reaches its final merge, by that merge only and
\* after every intermediate round has completed; intermediate Runs never go
\* to the output path, so an error in build or in an intermediate round
\* leaves an existing output file untouched.
C26_OutputCreatedOnceByFinalMerge ==
    /\ [](output_creates <= 1)
    /\ [](pc \in {"merged", "done"} => output_creates = 1)
    /\ [](BuildFailed => output_creates = 0)
    /\ [][output_creates' # output_creates => CreatesOutputAtFinalMerge]_vars
    /\ [][output_creates' = output_creates => output' = output]_vars
    /\ [][(InBuild \/ pc = "round") =>
              (output' = output /\ output_creates' = output_creates)]_vars

\* an intermediate round over three Runs failed while writing its scratch
\* file, and the older output file is still as it was
C26_Witness ==
    /\ MergeFailed
    /\ error.kind = "write"
    /\ Len(built) = 3
    /\ rounds = 0
    /\ output = <<OldOutput>>
    /\ output_creates = 0
    /\ created = 4

\* the Lines the read cursor of source i yields
CursorLines(i) == ReadAllLines(temp_files[i].data)

\* the entries popped so far that came from source i, in pop order
PoppedOf(i) ==
    LET at == {k \in 1..Len(popped) : popped[k][2] = i}
    IN  [j \in 1..Cardinality(at) |->
            popped[CHOOSE k \in at : Cardinality({m \in at : m <= k}) = j][1]]

\* the sources whose cursor has a Line read and not yet popped
Unexhausted == {i \in 1..Len(temp_files) : Len(PoppedOf(i)) < Len(CursorLines(i))}

\* the unread-head Line of every source that is not exhausted
Heads == {<<CursorLines(i)[Len(PoppedOf(i)) + 1], i>> : i \in Unexhausted}

\* e is smallest in heap by (Line, source index)
IsHeapMinimum(e, heap) ==
    /\ e \in heap
    /\ \A f \in heap : LexLess(e[1], f[1]) \/ (e[1] = f[1] /\ e[2] <= f[2])

\* the loop head of merge_into_writer
HeapAtLoopHead ==
    pc = "merging" =>
        /\ merge_st.heap = Heads
        /\ \A e, f \in merge_st.heap : e[2] = f[2] => e = f
        /\ Cardinality(merge_st.heap) <= Len(temp_files)
        /\ \A i \in 1..Len(temp_files) :
               PoppedOf(i) = SubSeq(CursorLines(i), 1, Len(PoppedOf(i)))
        /\ merge_st.heap = {} <=> Unexhausted = {}

\* after the loop every Line of every source has been popped exactly once
AllPoppedOnce ==
    (pc = "merged" /\ built # <<>>) =>
        /\ \A i \in 1..Len(temp_files) : PoppedOf(i) = CursorLines(i)
        /\ \A k \in 1..Len(popped) : popped[k][2] \in 1..Len(temp_files)
        /\ output = <<MergeIntoWriter(temp_files).data>>

\* C27: at every loop head of merge_into_writer the heap holds exactly the
\* unread-head Line of each source not yet exhausted, one entry per source
\* index at most; the popped entry is the minimum by (Line, source index);
\* the heap is empty exactly when every source is exhausted; every Line of
\* every source is popped exactly once and the merge terminates.
C27_HeapHoldsOneHeadPerSource ==
    /\ []HeapAtLoopHead
    /\ []AllPoppedOnce
    /\ [][(pc = "merging" /\ pc' = "merging") =>
              /\ Len(popped') = Len(popped) + 1
              /\ IsHeapMinimum(Last(popped'), merge_st.heap)
              /\ Last(popped') \notin merge_st'.heap \/ Last(popped') \in Heads']_vars
    /\ (pc = "merging") ~> (pc = "merged")

\* at a loop head both sources of a merge have the same Line at their head,
\* after an entry has been popped
C27_Witness ==
    /\ pc = "merging"
    /\ Len(temp_files) = 2
    /\ Cardinality(merge_st.heap) = 2
    /\ \E e, f \in merge_st.heap : e[1] = f[1] /\ e[2] # f[2]
    /\ Len(popped) >= 1

\* the payloads of the Log messages poll_worker has received from the job
ReceivedLogs ==
    LET logs == SelectSeq(received, LAMBDA m : m.type = "log")
    IN  [i \in 1..Len(logs) |-> logs[i].n]

\* the last n entries of seq, all of it when it has fewer
LastN(seq, n) == SubSeq(seq, Max(Len(seq) - n, 0) + 1, Len(seq))

\* C21: after any poll_worker steps and any number of Log messages, the
\* retained log list holds at most MAX_LOGS entries and is the most recent
\* (at most MAX_LOGS) of the messages received, in send order: the oldest
\* entries are the ones discarded. (A logs.clear() starts the list afresh.)
C21_LogListIsBoundedAndRecent ==
    /\ Len(gui.logs) <= MAX_LOGS
    /\ gui.logs = LastN(SubSeq(ReceivedLogs, gui.cleared + 1, Len(ReceivedLogs)), MAX_LOGS)
    /\ gui.cleared = 0 => gui.logs = LastN(ReceivedLogs, MAX_LOGS)

\* the list is full and the first two of the four Logs received were discarded
C21_Witness ==
    /\ Len(gui.logs) = MAX_LOGS
    /\ Len(ReceivedLogs) = MAX_LOGS + 2
    /\ gui.cleared = 0
    /\ gui.logs[1] = ReceivedLogs[3]

\* seq is Log messages followed by at most one Finished, which is last
LogsThenFinished(seq) ==
    \A k \in 1..Len(seq) : seq[k].type = "finished" => k = Len(seq)

\* the job's Finished has been received
FinishedReceived == received # <<>> /\ Last(received).type = "finished"

\* C22: a worker sends Log messages and then exactly one Finished as its last
\* message; poll_worker receives in send order, so every Log before the
\* Finished; on Finished, or on disconnection without it, processing becomes
\* false, the status is recorded and the receiver dropped; start_processing
\* is refused while processing, so at most one job and channel are live.
C22_WorkerProtocol ==
    /\ [](/\ LogsThenFinished(sent)
          /\ worker = "returned" <=> (sent # <<>> /\ Last(sent).type = "finished")
          /\ gui.receiver => sent = received \o channel
          /\ ~gui.receiver => (channel = <<>> /\ received = sent)
          /\ gui.processing <=> gui.receiver
          /\ worker = "running" => (gui.processing /\ jobs >= 1)
          /\ FinishedReceived => ~gui.processing
          /\ (FinishedReceived /\ gui.status \notin {"invalid", "busy"}) =>
                 gui.status = Last(received).result
          /\ (worker = "panicked" /\ ~gui.receiver /\ gui.status \notin {"invalid", "busy"}) =>
                 gui.status = "disconnected")
    /\ [][(gui.processing /\ ~gui'.processing) =>
              /\ ~gui'.receiver
              /\ worker # "running"
              /\ received' = sent
              /\ gui'.status \in {"ok", "err", "disconnected"}
              /\ gui'.status = "disconnected" <=> worker = "panicked"]_vars
    /\ [][gui.processing =>
              (jobs' = jobs /\ sent' \in {sent} \cup {Append(sent, m) : m \in
                   {LogMsg(Len(sent) + 1), FinishedMsg("ok"), FinishedMsg("err")}})]_vars
    /\ [][jobs' # jobs => (jobs' = jobs + 1 /\ ~gui.processing /\ worker # "running")]_vars

\* a second job is running, some of its Logs received and one still in the
\* channel, after the first job ended
C22_Witness ==
    /\ jobs = 2
    /\ worker = "running"
    /\ gui.processing
    /\ received # <<>>
    /\ channel # <<>>

\* ---- C23

\* the paths the inputs name that are regular files with the extension and
\* are not the output file, found without following the code's loop
Discoverable ==
    UNION {IF KindOf(scan.kind, scan.inputs[i]) = "dir"
           THEN {p \in Entries(scan.kind, scan.inputs[i], scan.recursive) :
                    /\ KindOf(scan.kind, p) = "file"
                    /\ Lower(ExtOf[Strip(p)]) = Lower(scan.ext)
                    /\ ~(KindOf(scan.kind, scan.output) # "absent" /\ Strip(p) = Strip(scan.output))}
           ELSE {p \in {scan.inputs[i]} :
                    /\ KindOf(scan.kind, p) = "file"
                    /\ Lower(ExtOf[Strip(p)]) = Lower(scan.ext)
                    /\ ~(KindOf(scan.kind, scan.output) # "absent" /\ Strip(p) = Strip(scan.output))}
           : i \in 1..Len(scan.inputs)}

PathSorted(s) == \A i, j \in 1..Len(s) : i < j => LexLeq(s[i], s[j])

\* C23: an Ok result is a non-empty list in path order holding exactly the
\* regular files with the configured extension (ASCII case ignored) found
\* under the inputs, never the output file; the invalid-path error is returned
\* at the first input that is neither a file nor a directory, before any later
\* input is looked at; the no-files error is returned exactly when nothing was
\* collected.
C23_DiscoveryReturnsSortedMatchingFiles ==
    /\ scan.result = "ok" =>
           /\ scan.files # <<>>
           /\ PathSorted(scan.files)
           /\ {scan.files[i] : i \in 1..Len(scan.files)} = Discoverable
           /\ \A i \in 1..Len(scan.files) :
                  /\ scan.kind[Strip(scan.files[i])] = "file"
                  /\ Lower(ExtOf[Strip(scan.files[i])]) = Lower(scan.ext)
                  /\ Strip(scan.files[i]) # Strip(scan.output)
    /\ scan.result = "no_files" => (scan.files = <<>> /\ Discoverable = {})
    /\ scan.result \in {"ok", "no_files"} =>
           \A i \in 1..Len(scan.inputs) : KindOf(scan.kind, scan.inputs[i]) # "absent"
    /\ scan.result = "invalid_path" => KindOf(scan.kind, scan.inputs[scan.at]) = "absent"
    /\ scan.result \in {"none", "invalid_path", "walk_error"} =>
           \A i \in 1..(scan.at - 1) : KindOf(scan.kind, scan.inputs[i]) # "absent"

\* a recursive scan of ./d that kept b.TXT and the nested e.Txt, left out
\* a.txt because the output d/a.txt is that file, and returned the list sorted
C23_Witness ==
    /\ scan.result = "ok"
    /\ scan.recursive
    /\ scan.ext = "txt"
    /\ scan.inputs = <<<<0, 1>>>>
    /\ scan.output = <<1, 1>>
    /\ scan.kind[<<1, 1>>] = "file"
    /\ scan.kind[<<1, 3>>] = "file"
    /\ scan.files = <<<<0, 1, 2>>, <<0, 1, 4, 1>>>>

====
